---- MODULE Spec2Model ----
(***************************************************************************)
(* A model of the agent-pptx repository:                                   *)
(*   - paper_pdf/get_img_from_pdf.py : clustering of drawings, detection   *)
(*     and merging of figure regions, the page loop and the batch loop     *)
(*   - paper_pdf/markdown2pptx_hz.py : file decoding, Markdown parsing,    *)
(*     bold-span formatting and the fixed-height slide layout              *)
(*   - markdown2pptx_hz.py : the layout whose module heights follow the    *)
(*     length of the text                                                  *)
(*   - app.py : the summarize handler of the threaded web server           *)
(*   - monitoring.py : the session slots of ConcurrencyManager             *)
(*   - main_optimized.py : sessions and agents of the discussion server    *)
(* Each part has a specification of its own (SpecMerge, SpecParse,         *)
(* SpecFormat, SpecLayout, SpecCluster, SpecDetect, SpecExtract,           *)
(* SpecBatch, SpecRead, SpecDynamic, SpecSummarize, SpecSlots,             *)
(* SpecDiscuss); the variables of the other parts stay at their idle       *)
(* values.                                                                 *)
(***************************************************************************)
EXTENDS Integers, Sequences, FiniteSets

VARIABLES
    pc,                 \* position of the running pipeline
    regions,            \* merge: the input list of regions (x0, y0, x1, y1)
    overlap_threshold,  \* merge: the threshold, a rational <<num, den>>
    merged,             \* merge: the list merge_overlapping_regions returned
    remerged,           \* merge: the result of a second call on `merged`
    content,            \* parse: the decoded text of the Markdown file
    lines,              \* parse: content.split('\n')
    i,                  \* parse: the line index of the scan
    current_slide,      \* parse: <<>> (None) or <<slide record>>
    slides_data,        \* parse: the slides flushed so far / layout: the input
    reparsed,           \* parse: parse of the re-serialized slides_data
    text_content,       \* format: the text handed to apply_text_formatting
    paragraphs,         \* format: the paragraphs of the text frame
    slide_idx,          \* layout: index of the next slide of slides_data
    prs_slides,         \* layout: per slide, the shapes added in order
    drawings,           \* cluster: the drawings of a page (their rects)
    drawing_groups,     \* cluster: the groups cluster_drawings returned
    page,               \* detect: the page handed to detect_image_regions
    detected,           \* detect: what detect_image_regions did (its result
                        \*   and its local visual_regions)
    pdf_document,       \* extract: the pages of the opened PDF
    merge_same_row,     \* extract: the same-row-merge toggle
    page_num,           \* extract: number of pages the loop has finished
    total_images,       \* extract: images saved so far
    raw_regions,        \* extract: per page, what detect_image_regions gave
    image_regions,      \* extract: per page, the regions handed to cropping
    saved_files,        \* extract: the files saved so far, in order
    pdf_folder,         \* batch: the folder (exists, listing)
    pdf_files,          \* batch: the PDF files found in the listing
    file_idx,           \* batch: number of files the loop has finished
    attempted,          \* batch: the files handed to the extractor, in order
    reported,           \* batch: the files whose failure was reported
    file,               \* read: the file handed to safe_read_file
    tried,              \* read: the decoders tried so far, in order
    read_result,        \* read: <<>> (running) or <<outcome>>
    requests,           \* summarize: per POST /api/summarize request, its
                        \*   body, the position of its handler and its reply
    is_running,         \* summarize: current_task_status['is_running']
    current_task_thread,\* summarize: 0 (None) or the thread last started
    task_threads,       \* summarize: per task thread, "running" or "finished"
    semaphore_value,    \* slots: the free slots of ConcurrencyManager._semaphore
    active_sessions,    \* slots: ConcurrencyManager.active_sessions
    session_locks,      \* slots: the keys of ConcurrencyManager.session_locks
    slot_result,        \* slots: <<>> or <<what the last acquire returned>>
    discussions,        \* discuss: ThreadSafeDiscussionStore._discussions
    session_agents,     \* discuss: the keys of ThreadSafeAgentManager._session_agents
    discussion_tasks,   \* discuss: per session, its process_discussion task
    session_count       \* discuss: number of sessions started so far

vars == <<pc, regions, overlap_threshold, merged, remerged, content, lines, i,
          current_slide, slides_data, reparsed, text_content, paragraphs,
          slide_idx, prs_slides, drawings, drawing_groups, page, detected,
          pdf_document, merge_same_row, page_num, total_images, raw_regions,
          image_regions, saved_files, pdf_folder, pdf_files, file_idx,
          attempted, reported, file, tried, read_result, requests,
          is_running, current_task_thread, task_threads, semaphore_value,
          active_sessions, session_locks, slot_result, discussions,
          session_agents, discussion_tasks, session_count>>

mergeVars  == <<regions, overlap_threshold, merged, remerged>>
parseVars  == <<content, lines, i, current_slide, reparsed>>
formatVars == <<text_content, paragraphs>>
layoutVars == <<slide_idx, prs_slides>>
clusterVars == <<drawings, drawing_groups>>
detectVars == <<page, detected>>
extractVars == <<pdf_document, merge_same_row, page_num, total_images,
                 raw_regions, image_regions, saved_files>>
batchVars  == <<pdf_folder, pdf_files, file_idx, attempted, reported>>
readVars   == <<file, tried, read_result>>
pdfVars    == <<clusterVars, detectVars, extractVars, batchVars>>
summarizeVars == <<requests, is_running, current_task_thread, task_threads>>
slotVars   == <<semaphore_value, active_sessions, session_locks, slot_result>>
discussVars == <<discussions, session_agents, discussion_tasks, session_count>>
serviceVars == <<summarizeVars, slotVars, discussVars>>

\* the idle values of the variables of a pipeline that is not running
IdleMerge ==
    /\ regions = <<>> /\ overlap_threshold = <<0, 1>>
    /\ merged = <<>> /\ remerged = <<>>
IdleParse ==
    /\ content = <<>> /\ lines = <<>> /\ i = 0 /\ current_slide = <<>>
    /\ reparsed = <<>>
IdleFormat == text_content = <<>> /\ paragraphs = <<>>
IdleLayout == slide_idx = 0 /\ prs_slides = <<>>
IdleCluster == drawings = <<>> /\ drawing_groups = <<>>
IdleDetect == page = <<>> /\ detected = <<>>
IdleExtract ==
    /\ pdf_document = <<>> /\ merge_same_row = TRUE /\ page_num = 0
    /\ total_images = 0 /\ raw_regions = <<>> /\ image_regions = <<>>
    /\ saved_files = <<>>
IdleBatch ==
    /\ pdf_folder = <<>> /\ pdf_files = <<>> /\ file_idx = 0
    /\ attempted = <<>> /\ reported = <<>>
IdleRead == file = <<>> /\ tried = <<>> /\ read_result = <<>>
IdlePdf == IdleCluster /\ IdleDetect /\ IdleExtract /\ IdleBatch
IdleSummarize ==
    /\ requests = <<>> /\ is_running = FALSE
    /\ current_task_thread = 0 /\ task_threads = <<>>
IdleSlots ==
    /\ semaphore_value = 0 /\ active_sessions = {} /\ session_locks = {}
    /\ slot_result = <<>>
IdleDiscuss ==
    /\ discussions = <<>> /\ session_agents = {}
    /\ discussion_tasks = <<>> /\ session_count = 0
IdleService == IdleSummarize /\ IdleSlots /\ IdleDiscuss

-----------------------------------------------------------------------------
(* Generic helpers *)

Min(a, b) == IF a <= b THEN a ELSE b
Max(a, b) == IF a >= b THEN a ELSE b

\* F(v) for a value v that is named once and used several times
Bind(v, F(_)) == CHOOSE out \in {F(x) : x \in {v}} : TRUE

\* all sequences over S of length 0..n
SeqsUpTo(S, n) == UNION {[1..k -> S] : k \in 0..n}

-----------------------------------------------------------------------------
(* get_img_from_pdf.py : merge_overlapping_regions                          *)

\* Rationals <<num, den>> with den > 0 stand for Python's float quotients.
RatGT(a, b) == a[1] * b[2] > b[1] * a[2]

\* intersection / union, 0 when the union is not positive
calculate_overlap(rect1, rect2) ==
    LET x_overlap == Max(0, Min(rect1[3], rect2[3]) - Max(rect1[1], rect2[1]))
        y_overlap == Max(0, Min(rect1[4], rect2[4]) - Max(rect1[2], rect2[2]))
        intersection == x_overlap * y_overlap
        area1 == (rect1[3] - rect1[1]) * (rect1[4] - rect1[2])
        area2 == (rect2[3] - rect2[1]) * (rect2[4] - rect2[2])
        union == area1 + area2 - intersection
    IN  IF union > 0 THEN <<intersection, union>> ELSE <<0, 1>>

\* y_overlap > min_height * 0.5
is_same_row(rect1, rect2) ==
    LET y_overlap == Max(0, Min(rect1[4], rect2[4]) - Max(rect1[2], rect2[2]))
        min_height == Min(rect1[4] - rect1[2], rect2[4] - rect2[2])
    IN  2 * y_overlap > min_height

distance_threshold == 100

is_horizontally_close(rect1, rect2) ==
    LET distance == IF rect2[1] >= rect1[3] THEN rect2[1] - rect1[3]
                    ELSE IF rect1[1] >= rect2[3] THEN rect1[1] - rect2[3]
                    ELSE 0
    IN  distance <= distance_threshold

\* a slip of the overlap test: >= instead of >
should_merge_geq(current_region, region2, threshold) ==
    \/ ~RatGT(threshold, calculate_overlap(current_region, region2))
    \/ /\ is_same_row(current_region, region2)
       /\ is_horizontally_close(current_region, region2)

\* should_merge: overlap above the threshold, or same row and close
should_merge(current_region, region2, threshold) ==
    \/ RatGT(calculate_overlap(current_region, region2), threshold)
    \/ /\ is_same_row(current_region, region2)
       /\ is_horizontally_close(current_region, region2)

\* a slip of the merge: the region merged in is marked used but the current
\* region keeps its box
BoundingBox_keep(r, s) == r

BoundingBox(r, s) ==
    <<Min(r[1], s[1]), Min(r[2], s[2]), Max(r[3], s[3]), Max(r[4], s[4])>>

\* One pass of `for j, region2 in enumerate(regions)` from position j on:
\* current_region and used change while the pass runs.
RECURSIVE InnerFor(_, _, _, _, _, _, _)
InnerFor(rs, threshold, idx, j, current_region, used, merged_any) ==
    IF j > Len(rs)
    THEN [current_region |-> current_region, used |-> used,
          merged_any |-> merged_any]
    ELSE IF j \in used \/ idx = j
         THEN InnerFor(rs, threshold, idx, j + 1, current_region, used,
                       merged_any)
         ELSE IF should_merge(current_region, rs[j], threshold)
              THEN InnerFor(rs, threshold, idx, j + 1,
                            BoundingBox(current_region, rs[j]),
                            used \cup {j}, TRUE)
              ELSE InnerFor(rs, threshold, idx, j + 1, current_region, used,
                            merged_any)

\* `while merged_any`: passes are repeated until one merges nothing.
RECURSIVE GrowRegion(_, _, _, _, _)
GrowRegion(rs, threshold, idx, current_region, used) ==
    LET pass == InnerFor(rs, threshold, idx, 1, current_region, used, FALSE)
    IN  IF pass.merged_any
        THEN GrowRegion(rs, threshold, idx, pass.current_region, pass.used)
        ELSE pass

\* `for i, region1 in enumerate(regions)`: every unused region seeds a group.
RECURSIVE OuterFor(_, _, _, _, _)
OuterFor(rs, threshold, idx, used, acc) ==
    IF idx > Len(rs) THEN acc
    ELSE IF idx \in used THEN OuterFor(rs, threshold, idx + 1, used, acc)
    ELSE LET grown == GrowRegion(rs, threshold, idx, rs[idx], used \cup {idx})
         IN  OuterFor(rs, threshold, idx + 1, grown.used,
                      Append(acc, grown.current_region))

merge_overlapping_regions(rs, threshold) ==
    IF rs = <<>> THEN <<>> ELSE OuterFor(rs, threshold, 1, {}, <<>>)

-----------------------------------------------------------------------------
(* The inputs of the merge specification *)

MaxRegions == 3

\* A coarse page grid: spans that touch, overlap by half, lie 100 and 101
\* units apart, and rows that do not meet.
XSpans == {<<0, 6>>, <<0, 7>>, <<6, 7>>, <<107, 113>>}
YSpans == {<<0, 10>>, <<5, 15>>, <<20, 30>>}
RegionUniverse == {<<xs[1], ys[1], xs[2], ys[2]>> : xs \in XSpans, ys \in YSpans}

\* End-to-end example 2 of the specification
Example2 == <<<<0, 0, 10, 10>>, <<5, 5, 15, 15>>, <<100, 100, 110, 110>>>>

\* Three regions of which the last two merge on overlap ratio alone (30/46)
\* and whose bounding box then overlaps the first by 1/3.
OverlapChain == <<<<0, 3, 8, 9>>, <<0, 0, 8, 5>>, <<2, 0, 8, 6>>>>

default_overlap_threshold == <<3, 10>>
Thresholds == {default_overlap_threshold, <<1, 10>>}

InitMerge ==
    /\ pc = "regions"
    /\ IdlePdf /\ IdleRead /\ IdleService
    /\ regions \in SeqsUpTo(RegionUniverse, MaxRegions)
                        \cup {Example2, OverlapChain}
    /\ overlap_threshold \in Thresholds
    /\ merged = <<>>
    /\ remerged = <<>>
    /\ content = <<>> /\ lines = <<>> /\ i = 0 /\ current_slide = <<>>
    /\ slides_data = <<>> /\ reparsed = <<>>
    /\ text_content = <<>> /\ paragraphs = <<>>
    /\ slide_idx = 0 /\ prs_slides = <<>>

\* detect_image_regions: merged_regions = merge_overlapping_regions(all_regions)
MergeCall ==
    /\ UNCHANGED <<pdfVars, readVars,
                   serviceVars>>
    /\ pc = "regions"
    /\ merged' = merge_overlapping_regions(regions, overlap_threshold)
    /\ pc' = "merged"
    /\ UNCHANGED <<regions, overlap_threshold, remerged, slides_data>>
    /\ UNCHANGED <<parseVars, formatVars, layoutVars>>

\* the merge step applied to its own output
MergeAgain ==
    /\ UNCHANGED <<pdfVars, readVars,
                   serviceVars>>
    /\ pc = "merged"
    /\ remerged' = merge_overlapping_regions(merged, overlap_threshold)
    /\ pc' = "remerged"
    /\ UNCHANGED <<regions, overlap_threshold, merged, slides_data>>
    /\ UNCHANGED <<parseVars, formatVars, layoutVars>>

NextMerge == MergeCall \/ MergeAgain

SpecMerge == InitMerge /\ [][NextMerge]_vars

-----------------------------------------------------------------------------
(* get_img_from_pdf.py : cluster_drawings                                   *)
(* A drawing is its 'rect' (x0, y0, x1, y1); a group lists the positions of *)
(* its drawings in the input list, in the order they were appended.         *)

cluster_distance_threshold == 50

\* distance < distance_threshold between the centres ((x0+x1)/2, (y0+y1)/2):
\* compared squared, on the doubled centres
IsNear(rect1, rect2) ==
    LET dx == (rect1[1] + rect1[3]) - (rect2[1] + rect2[3])
        dy == (rect1[2] + rect1[4]) - (rect2[2] + rect2[4])
    IN  dx * dx + dy * dy
            < 4 * cluster_distance_threshold * cluster_distance_threshold

\* `for j, other_drawing in enumerate(drawings)`: every unused drawing near
\* the seed drawing joins the group of the seed
RECURSIVE ClusterInner(_, _, _, _, _)
ClusterInner(ds, idx, j, group, used) ==
    IF j > Len(ds) THEN [group |-> group, used |-> used]
    ELSE IF j \in used \/ idx = j
         THEN ClusterInner(ds, idx, j + 1, group, used)
         ELSE IF IsNear(ds[idx], ds[j])
              THEN ClusterInner(ds, idx, j + 1, Append(group, j),
                                used \cup {j})
              ELSE ClusterInner(ds, idx, j + 1, group, used)

\* `for i, drawing in enumerate(drawings)`: every unused drawing seeds a group
RECURSIVE ClusterOuter(_, _, _, _)
ClusterOuter(ds, idx, used, groups) ==
    IF idx > Len(ds) THEN groups
    ELSE IF idx \in used THEN ClusterOuter(ds, idx + 1, used, groups)
    ELSE LET inner == ClusterInner(ds, idx, 1, <<idx>>, used \cup {idx})
         IN  ClusterOuter(ds, idx + 1, inner.used,
                          Append(groups, inner.group))

cluster_drawings(ds) ==
    IF ds = <<>> THEN <<>> ELSE ClusterOuter(ds, 1, {}, <<>>)

-----------------------------------------------------------------------------
(* The inputs of the cluster specification *)

MaxDrawings == 3

\* 10 x 10 drawings whose centres lie 40 apart in a row and 30 apart in a
\* column: neighbours are near, the diagonal (distance 50) is not
DrawingXSpans == {<<0, 10>>, <<40, 50>>, <<80, 90>>}
DrawingYSpans == {<<0, 10>>, <<30, 40>>}
DrawingUniverse ==
    {<<xs[1], ys[1], xs[2], ys[2]>> : xs \in DrawingXSpans, ys \in DrawingYSpans}

InitCluster ==
    /\ pc = "drawings"
    /\ drawings \in SeqsUpTo(DrawingUniverse, MaxDrawings)
    /\ drawing_groups = <<>>
    /\ IdleMerge /\ IdleParse /\ slides_data = <<>> /\ IdleFormat /\ IdleLayout
    /\ IdleDetect /\ IdleExtract /\ IdleBatch /\ IdleRead /\ IdleService

\* drawing_groups = cluster_drawings(drawings)
ClusterCall ==
    /\ pc = "drawings"
    /\ drawing_groups' = cluster_drawings(drawings)
    /\ pc' = "clustered"
    /\ UNCHANGED <<drawings, slides_data, mergeVars, parseVars, formatVars,
                   layoutVars, detectVars, extractVars, batchVars, readVars,
                   serviceVars>>

NextCluster == ClusterCall

SpecCluster == InitCluster /\ [][NextCluster]_vars

-----------------------------------------------------------------------------
(* get_img_from_pdf.py : detect_visual_regions, detect_image_regions        *)
(* A page is what its PyMuPDF calls give: for each call whether it raises   *)
(* and, if it does not, what it returns. Page coordinates are points, the   *)
(* rendered image is in pixels; page_rect.x0 = page_rect.y0 = 0.            *)

dpi == 300

\* x * scale_x with scale_x = page_rect.width / img.shape[1] = 72 / dpi
ToPoints(px) == (px * 72) \div dpi

min_contour_size == 100
min_drawing_size == 50

\* `for contour in contours`: boxes under 100 pixels are skipped, the others
\* converted back to page coordinates
RECURSIVE ContourRegions(_)
ContourRegions(contours) ==
    IF contours = <<>> THEN <<>>
    ELSE LET c == Head(contours)
             x == c[1]
             y == c[2]
             w == c[3]
             h == c[4]
         IN  IF w < min_contour_size \/ h < min_contour_size
             THEN ContourRegions(Tail(contours))
             ELSE <<<<ToPoints(x), ToPoints(y),
                      ToPoints(x + w), ToPoints(y + h)>>>>
                  \o ContourRegions(Tail(contours))

\* the whole body runs in a try block: any exception gives []
detect_visual_regions(p) ==
    IF p.pixmap_raises \/ p.visual_raises THEN <<>>
    ELSE ContourRegions(p.contours)

\* `for img in image_list`: an image whose get_image_rects raises is skipped
RECURSIVE EmbeddedImages(_)
EmbeddedImages(image_list) ==
    IF image_list = <<>> THEN <<>>
    ELSE (IF Head(image_list).raises THEN <<>> ELSE Head(image_list).rects)
         \o EmbeddedImages(Tail(image_list))

SetMin(S) == CHOOSE m \in S : \A n \in S : m <= n
SetMax(S) == CHOOSE m \in S : \A n \in S : m >= n

\* `for group in drawing_groups`: the bounding box of a group is a region
\* when it is more than 50 wide and more than 50 high
RECURSIVE DrawingRegions(_, _)
DrawingRegions(ds, groups) ==
    IF groups = <<>> THEN <<>>
    ELSE LET group == {ds[Head(groups)[k]] : k \in DOMAIN Head(groups)}
             x0 == SetMin({d[1] : d \in group})
             y0 == SetMin({d[2] : d \in group})
             x1 == SetMax({d[3] : d \in group})
             y1 == SetMax({d[4] : d \in group})
         IN  (IF (x1 - x0) > min_drawing_size /\ (y1 - y0) > min_drawing_size
              THEN <<<<x0, y0, x1, y1>>>> ELSE <<>>)
             \o DrawingRegions(ds, Tail(groups))

\* page.get_images() and page.get_drawings() are called outside any try
\* block: an exception of either leaves the function; otherwise the regions
\* of the three detectors are concatenated and merged
detect_image_regions(p) ==
    IF p.get_images_raises \/ p.get_drawings_raises
    THEN [raised |-> TRUE, regions |-> <<>>, visual_regions |-> <<>>]
    ELSE LET embedded_images == EmbeddedImages(p.images)
             drawing_regions ==
                 IF p.drawings # <<>>
                 THEN DrawingRegions(p.drawings, cluster_drawings(p.drawings))
                 ELSE <<>>
             visual_regions == detect_visual_regions(p)
             all_regions == embedded_images \o drawing_regions
                                \o visual_regions
         IN  [raised |-> FALSE,
              regions |-> merge_overlapping_regions(all_regions,
                                                    default_overlap_threshold),
              visual_regions |-> visual_regions]

-----------------------------------------------------------------------------
(* The inputs of the detect specification *)

Image(rects) == [raises |-> FALSE, rects |-> rects]
BrokenImage == [raises |-> TRUE, rects |-> <<>>]

\* a US Letter page: page.rect = (0, 0, 612, 792)
NewPage(images, ds, contours) ==
    [rect |-> <<0, 0, 612, 792>>,
     get_images_raises |-> FALSE, images |-> images,
     get_drawings_raises |-> FALSE, drawings |-> ds,
     pixmap_raises |-> FALSE, visual_raises |-> FALSE, contours |-> contours]

\* one picture; a broken picture followed by a sound one
ImageLists ==
    { <<>>, <<Image(<<<<300, 0, 360, 60>>>>)>>,
      <<BrokenImage, Image(<<<<300, 300, 360, 360>>>>)>> }

\* two halves of one 60 x 60 figure
DrawingLists == { <<>>, <<<<0, 0, 30, 60>>, <<30, 0, 60, 60>>>> }

\* contours in pixels: 75 x 500 is under the size limit, 500 x 500 is not,
\* 100 x 500 and 500 x 100 are just at it
ContourLists ==
    { <<>>, <<<<0, 1250, 75, 500>>>>, <<<<0, 1250, 500, 500>>>>,
      <<<<0, 1250, 100, 500>>, <<0, 2500, 500, 100>>>> }

DetectPages ==
    { [NewPage(images, ds, contours) EXCEPT
          !.get_images_raises = f1, !.get_drawings_raises = f2,
          !.visual_raises = f3] :
      images \in ImageLists, ds \in DrawingLists, contours \in ContourLists,
      f1 \in BOOLEAN, f2 \in BOOLEAN, f3 \in BOOLEAN }

InitDetect ==
    /\ pc = "page"
    /\ page \in {<<p>> : p \in DetectPages}
    /\ detected = <<>>
    /\ IdleMerge /\ IdleParse /\ slides_data = <<>> /\ IdleFormat /\ IdleLayout
    /\ IdleCluster /\ IdleExtract /\ IdleBatch /\ IdleRead /\ IdleService

\* raw_regions = detect_image_regions(page, dpi)
DetectCall ==
    /\ pc = "page"
    /\ detected' = <<detect_image_regions(page[1])>>
    /\ pc' = "detected"
    /\ UNCHANGED <<page, slides_data, mergeVars, parseVars, formatVars,
                   layoutVars, clusterVars, extractVars, batchVars, readVars,
                   serviceVars>>

NextDetect == DetectCall

SpecDetect == InitDetect /\ [][NextDetect]_vars

-----------------------------------------------------------------------------
(* get_img_from_pdf.py : merge_same_row_regions, was_merged_region and the  *)
(* page loop of extract_image_regions_from_pdf                              *)

row_threshold == 30
horizontal_gap_threshold == 100
merged_region_tolerance == 10
min_crop_size == 50

\* sorted(regions, key=lambda r: r[1]): a stable sort on y0
RECURSIVE InsertByY0(_, _)
InsertByY0(sorted, r) ==
    IF sorted = <<>> THEN <<r>>
    ELSE IF Head(sorted)[2] <= r[2]
         THEN <<Head(sorted)>> \o InsertByY0(Tail(sorted), r)
         ELSE <<r>> \o sorted

RECURSIVE SortByY0(_)
SortByY0(rs) ==
    IF rs = <<>> THEN <<>>
    ELSE InsertByY0(SortByY0(SubSeq(rs, 1, Len(rs) - 1)), rs[Len(rs)])

\* abs(y1_center - y2_center) <= threshold, on the doubled centres
is_same_horizontal_line(region1, region2) ==
    LET d == (region1[2] + region1[4]) - (region2[2] + region2[4])
    IN  (IF d >= 0 THEN d ELSE -d) <= 2 * row_threshold

get_horizontal_distance(region1, region2) ==
    IF region1[3] < region2[1] THEN region2[1] - region1[3]
    ELSE IF region2[3] < region1[1] THEN region1[1] - region2[3]
    ELSE 0

merge_regions_in_row(rs) ==
    IF Len(rs) = 1 THEN rs[1]
    ELSE <<SetMin({rs[k][1] : k \in DOMAIN rs}),
           SetMin({rs[k][2] : k \in DOMAIN rs}),
           SetMax({rs[k][3] : k \in DOMAIN rs}),
           SetMax({rs[k][4] : k \in DOMAIN rs})>>

\* `for i in range(1, len(sorted_regions))`: a region joins the current row
\* when it is on the line of the row's last region and close to it,
\* otherwise the row is closed and the region starts a new one
RECURSIVE RowsFrom(_, _, _, _)
RowsFrom(sorted_regions, k, current_row_regions, rows) ==
    IF k > Len(sorted_regions) THEN Append(rows, current_row_regions)
    ELSE LET current_region == sorted_regions[k]
             last_region == current_row_regions[Len(current_row_regions)]
         IN  IF /\ is_same_horizontal_line(last_region, current_region)
                /\ get_horizontal_distance(last_region, current_region)
                       <= horizontal_gap_threshold
             THEN RowsFrom(sorted_regions, k + 1,
                           Append(current_row_regions, current_region), rows)
             ELSE RowsFrom(sorted_regions, k + 1, <<current_region>>,
                           Append(rows, current_row_regions))

\* the rows merge_same_row_regions builds, top to bottom
RowsOf(rs) ==
    IF rs = <<>> THEN <<>>
    ELSE LET sorted_regions == SortByY0(rs)
         IN  RowsFrom(sorted_regions, 2, <<sorted_regions[1]>>, <<>>)

merge_same_row_regions(rs) ==
    LET rows == RowsOf(rs)
    IN  [k \in DOMAIN rows |-> merge_regions_in_row(rows[k])]

\* more than one original region lies within the region widened by 10
was_merged_region(original_regions, merged_region) ==
    Cardinality({k \in DOMAIN original_regions :
        /\ original_regions[k][1] >= merged_region[1] - merged_region_tolerance
        /\ original_regions[k][2] >= merged_region[2] - merged_region_tolerance
        /\ original_regions[k][3] <= merged_region[3] + merged_region_tolerance
        /\ original_regions[k][4] <= merged_region[4] + merged_region_tolerance
    }) > 1

\* int(x * scale_x) with scale_x = page_image.width / page_rect.width
ToPixels(pt) == (pt * dpi) \div 72

\* `for region_idx, (x0, y0, x1, y1) in enumerate(image_regions)`: the region
\* is clamped to the page image, cropped, dropped when under 50 pixels,
\* named and saved
RECURSIVE SaveRegions(_, _, _, _, _, _, _)
SaveRegions(p, flag, raw, rs, region_idx, pnum, st) ==
    IF region_idx > Len(rs) THEN st
    ELSE LET r == rs[region_idx]
             img_x0 == Max(0, ToPixels(r[1] - p.rect[1]))
             img_y0 == Max(0, ToPixels(r[2] - p.rect[2]))
             img_x1 == Min(ToPixels(p.rect[3] - p.rect[1]),
                           ToPixels(r[3] - p.rect[1]))
             img_y1 == Min(ToPixels(p.rect[4] - p.rect[2]),
                           ToPixels(r[4] - p.rect[2]))
             keep == /\ img_x1 > img_x0 /\ img_y1 > img_y0
                     /\ ~(img_x1 - img_x0 < min_crop_size
                            \/ img_y1 - img_y0 < min_crop_size)
             saved == [total |-> st.total + 1, page |-> pnum + 1,
                       kind |-> IF flag /\ was_merged_region(raw, r)
                                THEN "merged_row" ELSE "region",
                       idx |-> region_idx, region |-> r,
                       crop |-> <<img_x0, img_y0, img_x1, img_y1>>]
         IN  IF keep
             THEN SaveRegions(p, flag, raw, rs, region_idx + 1, pnum,
                              [total |-> st.total + 1,
                               files |-> Append(st.files, saved)])
             ELSE SaveRegions(p, flag, raw, rs, region_idx + 1, pnum, st)

\* one iteration of `for page_num in range(pdf_document.page_count)`; no
\* statement of it is in a try block
ProcessPage(p, flag, pnum, st) ==
    Bind(detect_image_regions(p), LAMBDA det :
      IF det.raised
      THEN [raised |-> TRUE, raw |-> <<>>, image_regions |-> <<>>,
            total |-> st.total, files |-> st.files]
      ELSE
        Bind(SortByY0(IF flag THEN merge_same_row_regions(det.regions)
                      ELSE det.regions), LAMBDA handed :
          IF p.pixmap_raises
          THEN [raised |-> TRUE, raw |-> det.regions,
                image_regions |-> handed,
                total |-> st.total, files |-> st.files]
          ELSE LET done == SaveRegions(p, flag, det.regions, handed, 1,
                                       pnum, st)
               IN  [raised |-> FALSE, raw |-> det.regions,
                    image_regions |-> handed,
                    total |-> done.total, files |-> done.files]))

RECURSIVE ExtractPages(_, _, _, _)
ExtractPages(pages, flag, pnum, st) ==
    IF pnum >= Len(pages) THEN [raised |-> FALSE, files |-> st.files]
    ELSE LET res == ProcessPage(pages[pnum + 1], flag, pnum, st)
         IN  IF res.raised THEN [raised |-> TRUE, files |-> res.files]
             ELSE ExtractPages(pages, flag, pnum + 1,
                               [total |-> res.total, files |-> res.files])

\* the whole call, as batch_extract_image_regions makes it
extract_image_regions_from_pdf(pdf, flag) ==
    IF pdf.open_raises THEN [raised |-> TRUE, files |-> <<>>]
    ELSE ExtractPages(pdf.pages, flag, 0, [total |-> 0, files |-> <<>>])

-----------------------------------------------------------------------------
(* The inputs of the extract specification *)

MaxPages == 2

PlainPage == NewPage(<<Image(<<<<300, 0, 360, 60>>>>)>>, <<>>, <<>>)
EmptyPage == NewPage(<<>>, <<>>, <<>>)
\* two pictures on one line, 12 apart, that overlap in height by just a half
RowPage ==
    NewPage(<<Image(<<<<0, 0, 60, 60>>>>), Image(<<<<72, 30, 132, 90>>>>)>>,
            <<>>, <<>>)
\* two tall pictures, one below the other, sharing a band of 42
TallPage ==
    NewPage(<<Image(<<<<0, 0, 60, 102>>>>), Image(<<<<0, 60, 60, 162>>>>)>>,
            <<>>, <<>>)
\* a picture with a small mark right under it
MarkPage ==
    NewPage(<<Image(<<<<0, 0, 96, 96>>>>), Image(<<<<0, 96, 18, 102>>>>)>>,
            <<>>, <<>>)
NoDrawingsPage == [PlainPage EXCEPT !.get_drawings_raises = TRUE]
NoPixmapPage == [PlainPage EXCEPT !.pixmap_raises = TRUE]

PageUniverse ==
    {PlainPage, EmptyPage, RowPage, TallPage, MarkPage, NoDrawingsPage,
     NoPixmapPage}

PdfUniverse ==
    {[open_raises |-> FALSE, pages |-> ps] :
        ps \in SeqsUpTo(PageUniverse, MaxPages)}
    \cup {[open_raises |-> TRUE, pages |-> <<>>]}

InitExtract ==
    /\ pc = "pdf"
    /\ pdf_document \in PdfUniverse
    /\ merge_same_row \in BOOLEAN
    /\ page_num = 0 /\ total_images = 0
    /\ raw_regions = <<>> /\ image_regions = <<>> /\ saved_files = <<>>
    /\ IdleMerge /\ IdleParse /\ slides_data = <<>> /\ IdleFormat /\ IdleLayout
    /\ IdleCluster /\ IdleDetect /\ IdleBatch /\ IdleRead /\ IdleService

\* pdf_document = fitz.open(pdf_path); total_images = 0
OpenPdf ==
    /\ pc = "pdf"
    /\ pc' = IF pdf_document.open_raises THEN "raised" ELSE "pages"
    /\ page_num' = 0 /\ total_images' = 0
    /\ UNCHANGED <<pdf_document, merge_same_row, raw_regions, image_regions,
                   saved_files>>
    /\ UNCHANGED <<slides_data, mergeVars, parseVars, formatVars, layoutVars,
                   clusterVars, detectVars, batchVars, readVars,
                   serviceVars>>

\* one iteration of the page loop: it ends the call when it raises
ExtractPage ==
    /\ pc = "pages"
    /\ page_num < Len(pdf_document.pages)
    /\ LET res == ProcessPage(pdf_document.pages[page_num + 1],
                              merge_same_row, page_num,
                              [total |-> total_images, files |-> saved_files])
       IN  /\ raw_regions' = Append(raw_regions, res.raw)
           /\ image_regions' = Append(image_regions, res.image_regions)
           /\ total_images' = res.total
           /\ saved_files' = res.files
           /\ pc' = IF res.raised THEN "raised" ELSE "pages"
           /\ page_num' = IF res.raised THEN page_num ELSE page_num + 1
    /\ UNCHANGED <<pdf_document, merge_same_row>>
    /\ UNCHANGED <<slides_data, mergeVars, parseVars, formatVars, layoutVars,
                   clusterVars, detectVars, batchVars, readVars,
                   serviceVars>>

\* the loop is over: pdf_document.close()
ClosePdf ==
    /\ pc = "pages"
    /\ page_num = Len(pdf_document.pages)
    /\ pc' = "closed"
    /\ UNCHANGED <<extractVars, slides_data, mergeVars, parseVars, formatVars,
                   layoutVars, clusterVars, detectVars, batchVars, readVars,
                   serviceVars>>

NextExtract == OpenPdf \/ ExtractPage \/ ClosePdf

SpecExtract == InitExtract /\ [][NextExtract]_vars

-----------------------------------------------------------------------------
(* markdown2pptx_hz.py : text helpers (Python str methods on sequences of   *)
(* one-character strings)                                                    *)

NL == "\n"
IsSpace(c) == c = " "

RECURSIVE lstrip(_)
lstrip(s) == IF s # <<>> /\ IsSpace(Head(s)) THEN lstrip(Tail(s)) ELSE s

RECURSIVE rstrip(_)
rstrip(s) ==
    IF s # <<>> /\ IsSpace(s[Len(s)]) THEN rstrip(SubSeq(s, 1, Len(s) - 1))
    ELSE s

strip(s) == rstrip(lstrip(s))

startswith(s, prefix) ==
    Len(s) >= Len(prefix) /\ SubSeq(s, 1, Len(prefix)) = prefix

endswith(s, suffix) ==
    Len(s) >= Len(suffix)
    /\ SubSeq(s, Len(s) - Len(suffix) + 1, Len(s)) = suffix

\* s[k:] with a 0-based k
SliceFrom(s, k) == SubSeq(s, k + 1, Len(s))

\* text.split('\n'): the pieces between successive newlines, always at
\* least one piece
split(s) ==
    LET newlines == {k \in DOMAIN s : s[k] = NL}
        \* the position of the j-th newline
        At(j) == CHOOSE k \in newlines :
                     Cardinality({m \in newlines : m < k}) = j - 1
        n == Cardinality(newlines)
    IN  [j \in 1..(n + 1) |->
            SubSeq(s, IF j = 1 THEN 1 ELSE At(j - 1) + 1,
                      IF j = n + 1 THEN Len(s) ELSE At(j) - 1)]

\* '\n'.join(pieces)
RECURSIVE join(_)
join(pieces) ==
    IF pieces = <<>> THEN <<>>
    ELSE IF Len(pieces) = 1 THEN pieces[1]
    ELSE pieces[1] \o <<NL>> \o join(Tail(pieces))

H1 == <<"#", " ">>
H2 == <<"#", "#", " ">>

-----------------------------------------------------------------------------
(* markdown2pptx_hz.py : parse_markdown.  The index i is 0-based as in the  *)
(* source; ls[k + 1] is lines[k].                                            *)

\* the description loop: stops at a '## ' line only
RECURSIVE CollectDescription(_, _, _)
CollectDescription(ls, k, description_lines) ==
    IF k >= Len(ls) THEN [i |-> k, collected |-> description_lines]
    ELSE IF startswith(strip(ls[k + 1]), H2)
         THEN [i |-> k, collected |-> description_lines]
         ELSE CollectDescription(ls, k + 1,
                  IF strip(ls[k + 1]) # <<>>
                  THEN Append(description_lines, strip(ls[k + 1]))
                  ELSE description_lines)

\* the module loop: stops at a heading of either level; an empty line is
\* kept only when the raw line is '' itself
RECURSIVE CollectModule(_, _, _)
CollectModule(ls, k, module_content) ==
    IF k >= Len(ls) THEN [i |-> k, collected |-> module_content]
    ELSE LET next_line == strip(ls[k + 1])
         IN  IF startswith(next_line, H1) \/ startswith(next_line, H2)
             THEN [i |-> k, collected |-> module_content]
             ELSE CollectModule(ls, k + 1,
                      IF next_line # <<>> THEN Append(module_content, next_line)
                      ELSE IF ls[k + 1] = <<>>
                           THEN Append(module_content, <<>>)
                           ELSE module_content)

\* a slip of the slide title: the slice of the module branch, line[3:]
SlideTitle_slice3(line) == strip(SliceFrom(line, 3))

\* 'title': line[2:].strip()
SlideTitle(line) == strip(SliceFrom(line, 2))

\* module_title = line[3:].strip()
ModuleTitle(line) == strip(SliceFrom(line, 3))

\* a slip of the fall-through: the index is left where it is
SkipLine_stay(st) == st

\* the `i += 1` that ends an iteration which opened nothing
SkipLine(st) == [st EXCEPT !.i = @ + 1]

\* a slip of the module branch: a '## ' line with no open slide opens an
\* untitled slide instead of being skipped
ParseIter_untitled(ls, st) ==
    LET line == strip(ls[st.i + 1])
    IN  IF startswith(line, H1)
        THEN LET desc == CollectDescription(ls, st.i + 1, <<>>)
             IN  [i |-> desc.i,
                  current_slide |->
                      <<[title |-> SlideTitle(line),
                         description |-> join(desc.collected),
                         modules |-> <<>>]>>,
                  slides_data |->
                      IF st.current_slide # <<>>
                      THEN Append(st.slides_data, st.current_slide[1])
                      ELSE st.slides_data]
        ELSE IF startswith(line, H2)
        THEN LET mod == CollectModule(ls, st.i + 1, <<>>)
                 slide == IF st.current_slide # <<>> THEN st.current_slide[1]
                          ELSE [title |-> <<>>, description |-> <<>>,
                                modules |-> <<>>]
             IN  [i |-> mod.i,
                  current_slide |->
                      <<[slide EXCEPT !.modules =
                            Append(@, [title |-> ModuleTitle(line),
                                       content |-> join(mod.collected)])]>>,
                  slides_data |-> st.slides_data]
        ELSE SkipLine(st)

\* One iteration of `while i < len(lines)`; st = [i, current_slide,
\* slides_data], current_slide being <<>> for None.
ParseIter(ls, st) ==
    LET line == strip(ls[st.i + 1])
    IN  IF startswith(line, H1)
        THEN LET desc == CollectDescription(ls, st.i + 1, <<>>)
             IN  [i |-> desc.i,
                  current_slide |->
                      <<[title |-> SlideTitle(line),
                         description |-> join(desc.collected),
                         modules |-> <<>>]>>,
                  slides_data |->
                      IF st.current_slide # <<>>
                      THEN Append(st.slides_data, st.current_slide[1])
                      ELSE st.slides_data]
        ELSE IF startswith(line, H2) /\ st.current_slide # <<>>
        THEN LET mod == CollectModule(ls, st.i + 1, <<>>)
                 slide == st.current_slide[1]
             IN  [i |-> mod.i,
                  current_slide |->
                      <<[slide EXCEPT !.modules =
                            Append(@, [title |-> ModuleTitle(line),
                                       content |-> join(mod.collected)])]>>,
                  slides_data |-> st.slides_data]
        ELSE SkipLine(st)

\* the flush after the loop and the return value
ParseResult(st) ==
    IF st.current_slide # <<>>
    THEN Append(st.slides_data, st.current_slide[1])
    ELSE st.slides_data

RECURSIVE ParseLoop(_, _)
ParseLoop(ls, st) ==
    IF st.i < Len(ls) THEN ParseLoop(ls, ParseIter(ls, st)) ELSE st

\* parse_markdown on the decoded text
parse_markdown(text) ==
    ParseResult(ParseLoop(split(text),
                          [i |-> 0, current_slide |-> <<>>,
                           slides_data |-> <<>>]))

\* The two-level heading format of a sequence of slide records: a '# title'
\* line, the description lines, then per module a '## title' line and its
\* content lines, all joined by newline.
RECURSIVE ModuleLines(_)
ModuleLines(modules) ==
    IF modules = <<>> THEN <<>>
    ELSE <<H2 \o modules[1].title>> \o split(modules[1].content)
         \o ModuleLines(Tail(modules))

RECURSIVE SlideLines(_)
SlideLines(slides) ==
    IF slides = <<>> THEN <<>>
    ELSE <<H1 \o slides[1].title>> \o split(slides[1].description)
         \o ModuleLines(slides[1].modules) \o SlideLines(Tail(slides))

Serialize(slides) == join(SlideLines(slides))

-----------------------------------------------------------------------------
(* The inputs of the parse specification *)

MaxLines == 4

LineUniverse ==
    { <<"#", " ", "a">>,                \* '# a'
      <<" ", "#", " ", "b", " ">>,      \* ' # b ' (indented, trailing blank)
      <<"#", "#", " ", "a">>,           \* '## a'
      <<"a">>, <<"b">>,                 \* text
      <<>>,                             \* an empty line
      <<" ">> }                         \* a whitespace-only line

InitParse ==
    /\ pc = "file"
    /\ IdlePdf /\ IdleRead /\ IdleService
    /\ content \in {join(ls) : ls \in SeqsUpTo(LineUniverse, MaxLines)}
    /\ lines = <<>> /\ i = 0 /\ current_slide = <<>>
    /\ slides_data = <<>> /\ reparsed = <<>>
    /\ regions = <<>> /\ overlap_threshold = <<0, 1>>
    /\ merged = <<>> /\ remerged = <<>>
    /\ text_content = <<>> /\ paragraphs = <<>>
    /\ slide_idx = 0 /\ prs_slides = <<>>

\* slides_data = [], current_slide = None, lines = content.split('\n'), i = 0
ParseStart ==
    /\ UNCHANGED <<pdfVars, readVars,
                   serviceVars>>
    /\ pc = "file"
    /\ lines' = split(content)
    /\ i' = 0 /\ current_slide' = <<>> /\ slides_data' = <<>>
    /\ pc' = "scan"
    /\ UNCHANGED <<content, reparsed, mergeVars, formatVars, layoutVars>>

\* one iteration of the while loop
ParseStep ==
    /\ UNCHANGED <<pdfVars, readVars,
                   serviceVars>>
    /\ pc = "scan"
    /\ i < Len(lines)
    /\ LET st == ParseIter(lines, [i |-> i, current_slide |-> current_slide,
                                   slides_data |-> slides_data])
       IN  /\ i' = st.i
           /\ current_slide' = st.current_slide
           /\ slides_data' = st.slides_data
    /\ UNCHANGED <<pc, content, lines, reparsed>>
    /\ UNCHANGED <<mergeVars, formatVars, layoutVars>>

\* the loop ends: the last slide is flushed and slides_data returned
ParseFinish ==
    /\ UNCHANGED <<pdfVars, readVars,
                   serviceVars>>
    /\ pc = "scan"
    /\ ~(i < Len(lines))
    /\ slides_data' = ParseResult([i |-> i, current_slide |-> current_slide,
                                   slides_data |-> slides_data])
    /\ pc' = "parsed"
    /\ UNCHANGED <<content, lines, i, current_slide, reparsed>>
    /\ UNCHANGED <<mergeVars, formatVars, layoutVars>>

\* the result written back in the heading format and parsed again
Reparse ==
    /\ UNCHANGED <<pdfVars, readVars,
                   serviceVars>>
    /\ pc = "parsed"
    /\ reparsed' = parse_markdown(Serialize(slides_data))
    /\ pc' = "reparsed"
    /\ UNCHANGED <<content, lines, i, current_slide, slides_data>>
    /\ UNCHANGED <<mergeVars, formatVars, layoutVars>>

NextParse == ParseStart \/ ParseStep \/ ParseFinish \/ Reparse

SpecParse == InitParse /\ [][NextParse]_vars

-----------------------------------------------------------------------------
(* markdown2pptx_hz.py : apply_text_formatting.  A text frame is its list   *)
(* of paragraphs, a paragraph its list of runs [text, bold].                 *)

STARS == <<"*", "*">>

HasStarsAt(s, k) == k + 1 <= Len(s) /\ s[k] = "*" /\ s[k + 1] = "*"

\* the first match of \*\*.*?\*\* in s at or after position k: <<p, q>> with
\* the opening '**' at p and the nearest closing '**' at q >= p + 2, or <<>>
FirstMatch(s, k) ==
    LET opens == {p \in k..Len(s) :
                    /\ HasStarsAt(s, p)
                    /\ \E q \in (p + 2)..Len(s) : HasStarsAt(s, q)}
    IN  IF opens = {} THEN <<>>
        ELSE LET p == CHOOSE x \in opens : \A y \in opens : x <= y
                 closes == {q \in (p + 2)..Len(s) : HasStarsAt(s, q)}
                 q == CHOOSE x \in closes : \A y \in closes : x <= y
             IN  <<p, q>>

\* re.split(r'(\*\*.*?\*\*)', line): the text between the matches and the
\* matches themselves, alternating, empty strings included
RECURSIVE ReSplitFrom(_, _)
ReSplitFrom(s, k) ==
    LET m == FirstMatch(s, k)
    IN  IF m = <<>> THEN <<SubSeq(s, k, Len(s))>>
        ELSE <<SubSeq(s, k, m[1] - 1), SubSeq(s, m[1], m[2] + 1)>>
             \o ReSplitFrom(s, m[2] + 2)

re_split(line) == ReSplitFrom(line, 1)

\* part.startswith('**') and part.endswith('**')
IsBoldPart(part) == startswith(part, STARS) /\ endswith(part, STARS)

\* the runs added for the parts of one line: part[2:-2] in bold, any other
\* non-empty part as it is
RECURSIVE RunsOf(_)
RunsOf(parts) ==
    IF parts = <<>> THEN <<>>
    ELSE LET part == parts[1]
         IN  (IF IsBoldPart(part)
              THEN <<[text |-> SubSeq(part, 3, Len(part) - 2), bold |-> TRUE]>>
              ELSE IF part # <<>> THEN <<[text |-> part, bold |-> FALSE]>>
              ELSE <<>>)
             \o RunsOf(Tail(parts))

\* add_paragraph(): a new empty paragraph at the end
add_paragraph(paras) == Append(paras, <<>>)

\* the loop `for line_idx, line in enumerate(lines)` from line_idx on
RECURSIVE FormatLines(_, _, _)
FormatLines(ls, line_idx, paras) ==
    IF line_idx >= Len(ls) THEN paras
    ELSE LET line == strip(ls[line_idx + 1])
         IN  IF line = <<>>
             THEN FormatLines(ls, line_idx + 1,
                      IF line_idx < Len(ls) - 1 THEN add_paragraph(paras)
                      ELSE paras)
             ELSE LET target == IF line_idx = 0 THEN paras
                                ELSE add_paragraph(paras)
                      p == IF line_idx = 0 THEN 1 ELSE Len(target)
                  IN  FormatLines(ls, line_idx + 1,
                          [target EXCEPT ![p] = @ \o RunsOf(re_split(line))])

\* text_frame.clear() leaves one empty paragraph; then the lines are added
apply_text_formatting(text) == FormatLines(split(text), 0, <<<<>>>>)

-----------------------------------------------------------------------------
(* The inputs of the format specification *)

MaxTextLen == 7

TextAlphabet == {"*", "a", " ", NL}

InitFormat ==
    /\ pc = "text"
    /\ IdlePdf /\ IdleRead /\ IdleService
    /\ text_content \in SeqsUpTo(TextAlphabet, MaxTextLen)
    /\ paragraphs = <<>>
    /\ regions = <<>> /\ overlap_threshold = <<0, 1>>
    /\ merged = <<>> /\ remerged = <<>>
    /\ content = <<>> /\ lines = <<>> /\ i = 0 /\ current_slide = <<>>
    /\ slides_data = <<>> /\ reparsed = <<>>
    /\ slide_idx = 0 /\ prs_slides = <<>>

\* apply_text_formatting(content_frame, module['content'])
ApplyFormatting ==
    /\ UNCHANGED <<pdfVars, readVars,
                   serviceVars>>
    /\ pc = "text"
    /\ paragraphs' = apply_text_formatting(text_content)
    /\ pc' = "formatted"
    /\ UNCHANGED <<text_content, slides_data>>
    /\ UNCHANGED <<mergeVars, parseVars, layoutVars>>

NextFormat == ApplyFormatting

SpecFormat == InitFormat /\ [][NextFormat]_vars

-----------------------------------------------------------------------------
(* markdown2pptx_hz.py : create_pptx_from_markdown (fixed-height layout).   *)
(* Lengths are EMU as python-pptx keeps them; Cm takes tenths of a          *)
(* centimetre (Cm(x) = int(x * 360000); every value the loops reach is a    *)
(* whole number of tenths and converts exactly).                            *)

Cm(tenths) == tenths * 36000

slide_width  == 12188952      \* Inches(13.33)
slide_height == 6858000       \* Inches(7.5)

title_bar_width     == 300    \* Cm(30)
title_bar_height    == 15     \* Cm(1.5)
desc_top            == 17     \* Cm(1.7)
desc_width          == 340    \* Cm(34)
desc_height         == 6      \* Cm(0.6)
first_module_y      == 30     \* current_y = 3.0
module_title_width  == 60     \* Cm(6)
module_title_height == 8      \* Cm(0.8)
content_width       == 145    \* Cm(14.5)
left_column_x       == 10     \* Cm(1)
right_column_x      == 160    \* Cm(16)
left_module_height  == 42     \* Cm(4.2)
right_module_height == 60     \* Cm(6.0)
left_advance        == 51     \* current_y += 4.8 + 0.3
right_advance       == 71     \* current_y += 6.8 + 0.3

\* modules[:3]
left_modules(modules) == SubSeq(modules, 1, Min(3, Len(modules)))

\* a slip of the right column: modules[3:] without the upper limit
right_modules_unbounded(modules) == SubSeq(modules, 4, Len(modules))

\* modules[3:5]
right_modules(modules) == SubSeq(modules, 4, Min(5, Len(modules)))

\* a slip towards a dynamic layout: the content box grows with its text
ModuleShapes_dynamic(module, x, current_y, content_height) ==
    << [shape |-> "rectangle", left |-> Cm(x), top |-> Cm(current_y),
        width |-> Cm(module_title_width), height |-> Cm(module_title_height),
        text |-> module.title, paragraphs |-> <<>>],
       [shape |-> "textbox", left |-> Cm(x),
        top |-> Cm(current_y + module_title_height),
        width |-> Cm(content_width),
        height |-> Cm(content_height + Len(module.content)),
        text |-> <<>>, paragraphs |-> apply_text_formatting(module.content)] >>

\* the two shapes of one module at current_y: the title rectangle and the
\* content text box below it
ModuleShapes(module, x, current_y, content_height) ==
    << [shape |-> "rectangle", left |-> Cm(x), top |-> Cm(current_y),
        width |-> Cm(module_title_width), height |-> Cm(module_title_height),
        text |-> module.title, paragraphs |-> <<>>],
       [shape |-> "textbox", left |-> Cm(x),
        top |-> Cm(current_y + module_title_height),
        width |-> Cm(content_width), height |-> Cm(content_height),
        text |-> <<>>, paragraphs |-> apply_text_formatting(module.content)] >>

\* one column: `for i, module in enumerate(...)` with current_y advancing
RECURSIVE ColumnShapes(_, _, _, _, _)
ColumnShapes(modules, x, current_y, content_height, advance) ==
    IF modules = <<>> THEN <<>>
    ELSE ModuleShapes(modules[1], x, current_y, content_height)
         \o ColumnShapes(Tail(modules), x, current_y + advance,
                         content_height, advance)

\* the shapes added to one slide, in the order they are added
SlideShapes(slide_data) ==
    << [shape |-> "textbox", left |-> Cm(0), top |-> Cm(0),
        width |-> Cm(title_bar_width), height |-> Cm(title_bar_height),
        text |-> slide_data.title, paragraphs |-> <<>>],
       [shape |-> "rectangle", left |-> Cm(0), top |-> Cm(desc_top),
        width |-> Cm(desc_width), height |-> Cm(desc_height),
        text |-> slide_data.description, paragraphs |-> <<>>] >>
    \o ColumnShapes(left_modules(slide_data.modules), left_column_x,
                    first_module_y, left_module_height, left_advance)
    \o ColumnShapes(right_modules(slide_data.modules), right_column_x,
                    first_module_y, right_module_height, right_advance)

-----------------------------------------------------------------------------
(* The inputs of the layout specification: slide records as parse_markdown  *)
(* returns them                                                              *)

MaxModules == 7
MaxSlides == 2

\* the k-th module of a slide is titled with k letters
TitleOf(k) == [j \in 1..k |-> "a"]

ModuleContents == { <<"a">>, <<"*", "*", "a", "*", "*", " ", "b", NL, NL, "b">> }

SlideInputs ==
    { [title |-> <<"a">>, description |-> d,
       modules |-> [k \in 1..n |-> [title |-> TitleOf(k), content |-> c]]] :
      d \in {<<>>, <<"b">>}, n \in 0..MaxModules, c \in ModuleContents }

InitLayout ==
    /\ pc = "deck"
    /\ IdlePdf /\ IdleRead /\ IdleService
    /\ slides_data \in SeqsUpTo(SlideInputs, MaxSlides)
    /\ slide_idx = 0 /\ prs_slides = <<>>
    /\ regions = <<>> /\ overlap_threshold = <<0, 1>>
    /\ merged = <<>> /\ remerged = <<>>
    /\ content = <<>> /\ lines = <<>> /\ i = 0 /\ current_slide = <<>>
    /\ reparsed = <<>>
    /\ text_content = <<>> /\ paragraphs = <<>>

\* prs = Presentation() with the 16:9 slide size
NewPresentation ==
    /\ UNCHANGED <<pdfVars, readVars,
                   serviceVars>>
    /\ pc = "deck"
    /\ prs_slides' = <<>> /\ slide_idx' = 0
    /\ pc' = "slides"
    /\ UNCHANGED <<slides_data, mergeVars, parseVars, formatVars>>

\* one iteration of `for slide_data in slides_data`
AddSlide ==
    /\ UNCHANGED <<pdfVars, readVars,
                   serviceVars>>
    /\ pc = "slides"
    /\ slide_idx < Len(slides_data)
    /\ prs_slides' = Append(prs_slides, SlideShapes(slides_data[slide_idx + 1]))
    /\ slide_idx' = slide_idx + 1
    /\ UNCHANGED <<pc, slides_data, mergeVars, parseVars, formatVars>>

\* prs.save(output_file)
SavePresentation ==
    /\ UNCHANGED <<pdfVars, readVars,
                   serviceVars>>
    /\ pc = "slides"
    /\ slide_idx = Len(slides_data)
    /\ pc' = "saved"
    /\ UNCHANGED <<slides_data, slide_idx, prs_slides>>
    /\ UNCHANGED <<mergeVars, parseVars, formatVars>>

NextLayout == NewPresentation \/ AddSlide \/ SavePresentation

SpecLayout == InitLayout /\ [][NextLayout]_vars

-----------------------------------------------------------------------------
(* get_img_from_pdf.py : batch_extract_image_regions                        *)
(* A folder is whether it exists and what os.listdir gives: file names      *)
(* (sequences of characters) with, for a PDF, the document behind the name. *)

\* str.lower() on the letters that occur in the names
LowerChar(c) ==
    CASE c = "P" -> "p" [] c = "D" -> "d" [] c = "F" -> "f" [] OTHER -> c
lower(s) == [k \in DOMAIN s |-> LowerChar(s[k])]

DotPdf == <<".", "p", "d", "f">>

\* [f for f in os.listdir(pdf_folder) if f.lower().endswith('.pdf')]
RECURSIVE PdfFilesOf(_)
PdfFilesOf(listing) ==
    IF listing = <<>> THEN <<>>
    ELSE (IF endswith(lower(Head(listing).name), DotPdf)
          THEN <<Head(listing)>> ELSE <<>>)
         \o PdfFilesOf(Tail(listing))

\* the loop goes on without the exception
AfterExtract_reraise(raised) == IF raised THEN "raised" ELSE "files"

\* `except Exception as e: print(...)`: the loop goes on after a failure
AfterExtract(raised) == "files"

-----------------------------------------------------------------------------
(* The inputs of the batch specification *)

MaxFiles == 3

SoundPdf == [open_raises |-> FALSE, pages |-> <<PlainPage>>]
BrokenPdf == [open_raises |-> TRUE, pages |-> <<>>]
BadPagePdf == [open_raises |-> FALSE, pages |-> <<PlainPage, NoPixmapPage>>]

FileUniverse ==
    { [name |-> <<"a", ".", "p", "d", "f">>, pdf |-> SoundPdf],
      [name |-> <<"b", ".", "P", "D", "F">>, pdf |-> BrokenPdf],
      [name |-> <<"c", ".", "p", "d", "f">>, pdf |-> BadPagePdf],
      [name |-> <<"p", "d", "f", ".", "a">>, pdf |-> BrokenPdf] }

\* a directory listing holds no name twice
Listings ==
    {l \in SeqsUpTo(FileUniverse, MaxFiles) :
        \A a, b \in DOMAIN l : a # b => l[a] # l[b]}

InitBatch ==
    /\ pc = "folder"
    /\ pdf_folder \in {[exists |-> TRUE, listing |-> l] : l \in Listings}
                      \cup {[exists |-> FALSE, listing |-> <<>>]}
    /\ pdf_files = <<>> /\ file_idx = 0
    /\ attempted = <<>> /\ reported = <<>>
    /\ IdleMerge /\ IdleParse /\ slides_data = <<>> /\ IdleFormat /\ IdleLayout
    /\ IdleCluster /\ IdleDetect /\ IdleExtract /\ IdleRead /\ IdleService

\* the folder check, the listing and the check for an empty list
ListFolder ==
    /\ pc = "folder"
    /\ IF ~pdf_folder.exists
       THEN pdf_files' = <<>> /\ pc' = "returned"
       ELSE /\ pdf_files' = PdfFilesOf(pdf_folder.listing)
            /\ pc' = IF PdfFilesOf(pdf_folder.listing) = <<>>
                     THEN "returned" ELSE "files"
    /\ UNCHANGED <<pdf_folder, file_idx, attempted, reported>>
    /\ UNCHANGED <<slides_data, mergeVars, parseVars, formatVars, layoutVars,
                   clusterVars, detectVars, extractVars, readVars,
                   serviceVars>>

\* one iteration of `for pdf_file in pdf_files`
BatchFile ==
    /\ pc = "files"
    /\ file_idx < Len(pdf_files)
    /\ LET pdf_file == pdf_files[file_idx + 1]
           res == extract_image_regions_from_pdf(pdf_file.pdf, merge_same_row)
       IN  /\ attempted' = Append(attempted, pdf_file.name)
           /\ reported' = IF res.raised THEN Append(reported, pdf_file.name)
                          ELSE reported
           /\ pc' = AfterExtract(res.raised)
    /\ file_idx' = file_idx + 1
    /\ UNCHANGED <<pdf_folder, pdf_files>>
    /\ UNCHANGED <<slides_data, mergeVars, parseVars, formatVars, layoutVars,
                   clusterVars, detectVars, extractVars, readVars,
                   serviceVars>>

\* the list is exhausted: the function returns
BatchDone ==
    /\ pc = "files"
    /\ file_idx = Len(pdf_files)
    /\ pc' = "returned"
    /\ UNCHANGED <<batchVars, slides_data, mergeVars, parseVars, formatVars,
                   layoutVars, clusterVars, detectVars, extractVars, readVars,
                   serviceVars>>

NextBatch == ListFolder \/ BatchFile \/ BatchDone

SpecBatch == InitBatch /\ [][NextBatch]_vars

-----------------------------------------------------------------------------
(* markdown2pptx_hz.py : safe_read_file                                     *)
(* A file is whether it can be opened, its bytes and what chardet.detect    *)
(* reports for them; text is a sequence of code points. The decoders are    *)
(* the codecs of the Python runtime that open(..., encoding=...) selects.   *)

DecodeError == [ok |-> FALSE, text |-> <<>>]
Decoded(text) == [ok |-> TRUE, text |-> text]

\* UTF-8: the number of continuation bytes a lead byte asks for (-1: the
\* byte cannot start a character)
Utf8Need(b) ==
    IF b < 128 THEN 0
    ELSE IF b >= 194 /\ b <= 223 THEN 1
    ELSE IF b >= 224 /\ b <= 239 THEN 2
    ELSE IF b >= 240 /\ b <= 244 THEN 3
    ELSE -1

\* the range of the first continuation byte is narrower after some leads
Utf8ContOk(b, lead_byte, pos) ==
    IF pos > 1 THEN b >= 128 /\ b <= 191
    ELSE CASE lead_byte = 224 -> b >= 160 /\ b <= 191
           [] lead_byte = 237 -> b >= 128 /\ b <= 159
           [] lead_byte = 240 -> b >= 144 /\ b <= 191
           [] lead_byte = 244 -> b >= 128 /\ b <= 143
           [] OTHER -> b >= 128 /\ b <= 191

\* how many of the continuation bytes asked for are there
RECURSIVE Utf8Have(_, _, _)
Utf8Have(bs, need, k) ==
    IF k >= need \/ k + 2 > Len(bs) \/ ~Utf8ContOk(bs[k + 2], bs[1], k + 1)
    THEN k ELSE Utf8Have(bs, need, k + 1)

Utf8Char(bs, need) ==
    CASE need = 0 -> bs[1]
      [] need = 1 -> (bs[1] - 192) * 64 + (bs[2] - 128)
      [] need = 2 -> (bs[1] - 224) * 4096 + (bs[2] - 128) * 64 + (bs[3] - 128)
      [] need = 3 -> (bs[1] - 240) * 262144 + (bs[2] - 128) * 4096
                        + (bs[3] - 128) * 64 + (bs[4] - 128)

\* errors='strict' stops at the first ill-formed sequence, errors='ignore'
\* drops it and goes on
RECURSIVE utf8_decode(_, _, _)
utf8_decode(bs, acc, ignore) ==
    IF bs = <<>> THEN Decoded(acc)
    ELSE LET need == Utf8Need(bs[1])
             have == IF need > 0 THEN Utf8Have(bs, need, 0) ELSE 0
         IN  IF need >= 0 /\ have = need
             THEN utf8_decode(SubSeq(bs, need + 2, Len(bs)),
                              Append(acc, Utf8Char(bs, need)), ignore)
             ELSE IF ignore
                  THEN utf8_decode(SubSeq(bs, have + 2, Len(bs)), acc, ignore)
                  ELSE DecodeError

\* GBK and its subset GB2312: the two-byte characters over the bytes that
\* occur in the inputs
GbkChar(lead_byte, trail_byte) ==
    CASE lead_byte = 196 /\ trail_byte = 65 -> 33089
      [] lead_byte = 196 /\ trail_byte = 128 -> 33191
      [] lead_byte = 196 /\ trail_byte = 196 -> 21738
      [] lead_byte = 196 /\ trail_byte = 227 -> 20320
      [] lead_byte = 227 /\ trail_byte = 65 -> 37447
      [] lead_byte = 227 /\ trail_byte = 128 -> 37510
      [] lead_byte = 227 /\ trail_byte = 196 -> 38579
      [] lead_byte = 227 /\ trail_byte = 227 -> 27811

IsLeadByte(codec, b) ==
    IF codec = "gb2312" THEN b >= 161 /\ b <= 247 ELSE b >= 129 /\ b <= 254

IsTrailByte(codec, b) ==
    IF codec = "gb2312" THEN b >= 161 /\ b <= 254
    ELSE (b >= 64 /\ b <= 126) \/ (b >= 128 /\ b <= 254)

RECURSIVE dbcs_decode(_, _, _)
dbcs_decode(bs, acc, codec) ==
    IF bs = <<>> THEN Decoded(acc)
    ELSE IF bs[1] < 128
         THEN dbcs_decode(Tail(bs), Append(acc, bs[1]), codec)
         ELSE IF /\ Len(bs) >= 2
                 /\ IsLeadByte(codec, bs[1]) /\ IsTrailByte(codec, bs[2])
              THEN dbcs_decode(SubSeq(bs, 3, Len(bs)),
                               Append(acc, GbkChar(bs[1], bs[2])), codec)
              ELSE DecodeError

\* Windows-1252: 0x80-0x9F are remapped, five of them are undefined
Cp1252Undefined == {129, 141, 143, 144, 157}
Cp1252High ==
    <<8364, 0, 8218, 402, 8222, 8230, 8224, 8225, 710, 8240, 352, 8249, 338,
      0, 381, 0, 0, 8216, 8217, 8220, 8221, 8226, 8211, 8212, 732, 8482, 353,
      8250, 339, 0, 382, 376>>

cp1252_decode(bs) ==
    IF \E k \in DOMAIN bs : bs[k] \in Cp1252Undefined THEN DecodeError
    ELSE Decoded([k \in DOMAIN bs |->
                    IF bs[k] >= 128 /\ bs[k] <= 159
                    THEN Cp1252High[bs[k] - 127] ELSE bs[k]])

\* Latin-1 maps every byte to the code point of the same number
latin1_decode(bs) == Decoded(bs)

ascii_decode(bs) ==
    IF \E k \in DOMAIN bs : bs[k] >= 128 THEN DecodeError ELSE Decoded(bs)

\* the codec an encoding name selects ("" : LookupError, unknown encoding)
lookup(name) ==
    CASE name \in {"utf-8"} -> "utf-8"
      [] name \in {"gbk", "cp936"} -> "gbk"
      [] name \in {"gb2312", "GB2312"} -> "gb2312"
      [] name \in {"latin-1", "ISO-8859-1"} -> "iso8859-1"
      [] name \in {"cp1252", "Windows-1252"} -> "cp1252"
      [] name \in {"ascii"} -> "ascii"
      [] OTHER -> ""

decode(codec, bs, ignore) ==
    CASE codec = "utf-8" -> utf8_decode(bs, <<>>, ignore)
      [] codec \in {"gbk", "gb2312"} -> dbcs_decode(bs, <<>>, codec)
      [] codec = "iso8859-1" -> latin1_decode(bs)
      [] codec = "cp1252" -> cp1252_decode(bs)
      [] codec = "ascii" -> ascii_decode(bs)

\* with open(file_path, 'r', encoding=..., errors=...) as f: f.read()
\* fails when the file is absent, the encoding unknown or the bytes
\* ill-formed
OpenAndRead(f, name, ignore) ==
    IF ~f.exists \/ lookup(name) = "" THEN DecodeError
    ELSE decode(lookup(name), f.bytes, ignore)

confidence_threshold == 70      \* confidence > 0.7, in hundredths

\* a slip of the list: gb2312 tried before gbk
encodings_gb2312_first ==
    <<"utf-8", "gb2312", "gbk", "cp936", "latin-1", "cp1252">>

\* encodings = ['utf-8', 'gbk', 'gb2312', 'cp936', 'latin-1', 'cp1252']
encodings == <<"utf-8", "gbk", "gb2312", "cp936", "latin-1", "cp1252">>

\* a slip of method 1: the exception leaves the function
OnSniffError_propagate == "raised"

\* `except Exception as e: print(...)`: method 2 follows a failed method 1
OnSniffError == "encodings"

Attempt(method, name) == [method |-> method, encoding |-> name]
ReturnedText(a, res) ==
    <<[kind |-> "text", text |-> res.text, method |-> a.method,
       encoding |-> a.encoding]>>

\* the attempts of method 2 made so far
ListTried == Cardinality({k \in DOMAIN tried : tried[k].method = "list"})

-----------------------------------------------------------------------------
(* The inputs of the read specification *)

MaxBytes == 3

\* 'A', the two bytes of GBK 'ni' (C4 E3), and a continuation byte that
\* makes C4 80 well-formed UTF-8
ByteAlphabet == {65, 196, 227, 128}

\* what chardet may name; it names nothing (None) only at confidence 0
SniffedEncodings == {"utf-8", "GB2312", "ascii", "Windows-1252", "EUC-TW"}
Confidences == {50, 70, 99}

ReadFiles ==
    {[exists |-> TRUE, bytes |-> bs, detected_encoding |-> e,
      confidence |-> c] :
        bs \in SeqsUpTo(ByteAlphabet, MaxBytes), e \in SniffedEncodings,
        c \in Confidences}
    \cup {[exists |-> TRUE, bytes |-> bs, detected_encoding |-> "None",
           confidence |-> 0] : bs \in SeqsUpTo(ByteAlphabet, MaxBytes)}
    \cup {[exists |-> FALSE, bytes |-> <<>>, detected_encoding |-> "None",
           confidence |-> 0]}

InitRead ==
    /\ pc = "path"
    /\ file \in ReadFiles
    /\ tried = <<>> /\ read_result = <<>>
    /\ IdleMerge /\ IdleParse /\ slides_data = <<>> /\ IdleFormat /\ IdleLayout
    /\ IdlePdf /\ IdleService

\* method 1: sniff the bytes and, at high confidence, read with the sniffed
\* encoding
SniffAndRead ==
    /\ pc = "path"
    /\ IF file.exists /\ file.confidence > confidence_threshold
       THEN LET a == Attempt("sniffed", file.detected_encoding)
                res == OpenAndRead(file, file.detected_encoding, FALSE)
            IN  /\ tried' = <<a>>
                /\ IF res.ok
                   THEN read_result' = ReturnedText(a, res) /\ pc' = "returned"
                   ELSE read_result' = <<>> /\ pc' = OnSniffError
       ELSE /\ tried' = <<>>
            /\ read_result' = <<>>
            /\ pc' = IF file.exists THEN "encodings" ELSE OnSniffError
    /\ UNCHANGED <<file, slides_data, mergeVars, parseVars, formatVars,
                   layoutVars, pdfVars, serviceVars>>

\* method 2: one iteration of `for encoding in encodings`
TryEncoding ==
    /\ pc = "encodings"
    /\ ListTried < Len(encodings)
    /\ LET a == Attempt("list", encodings[ListTried + 1])
           res == OpenAndRead(file, a.encoding, FALSE)
       IN  /\ tried' = Append(tried, a)
           /\ IF res.ok
              THEN read_result' = ReturnedText(a, res) /\ pc' = "returned"
              ELSE read_result' = <<>> /\ pc' = "encodings"
    /\ UNCHANGED <<file, slides_data, mergeVars, parseVars, formatVars,
                   layoutVars, pdfVars, serviceVars>>

\* method 3: UTF-8 with errors='ignore'; its failure raises ValueError
ReadLossy ==
    /\ pc = "encodings"
    /\ ListTried = Len(encodings)
    /\ LET a == Attempt("lossy", "utf-8")
           res == OpenAndRead(file, "utf-8", TRUE)
       IN  /\ tried' = Append(tried, a)
           /\ IF res.ok
              THEN read_result' = ReturnedText(a, res) /\ pc' = "returned"
              ELSE /\ read_result' = <<[kind |-> "ValueError", text |-> <<>>,
                                        method |-> "", encoding |-> ""]>>
                   /\ pc' = "raised"
    /\ UNCHANGED <<file, slides_data, mergeVars, parseVars, formatVars,
                   layoutVars, pdfVars, serviceVars>>

NextRead == SniffAndRead \/ TryEncoding \/ ReadLossy

SpecRead == InitRead /\ [][NextRead]_vars

-----------------------------------------------------------------------------
(* agent-pptx/markdown2pptx_hz.py : create_pptx_from_markdown, the variant   *)
(* whose modules advance by an estimate of the text height.  Here current_y *)
(* is kept in hundredths of a centimetre: the estimate is a multiple of     *)
(* 0.35 cm.  CmH(h) is Cm(h / 100) = int(h / 100 * 360000); on the inputs    *)
(* below every float the source reaches converts to the same EMU.           *)

CmH(hundredths) == hundredths * 3600

chars_per_line         == 24     \* int(14.5 * 10 / (10 * 0.6))
line_height_cm         == 35     \* 10 * 0.035 * 1.0
dynamic_first_y        == 300    \* current_y = 3.0
dynamic_title_height   == 80     \* Cm(0.8), current_y + 0.8, text_height + 0.8
dynamic_left_content   == 400    \* content_height = Cm(4)
dynamic_right_content  == 600    \* content_height = Cm(6)
dynamic_left_minimum   == 400    \* max(4.0, ...)
dynamic_right_minimum  == 600    \* max(6.0, ...)
dynamic_gap            == 50     \* current_y += module_total_height + 0.5

\* lines = len(text) // chars_per_line + 1; return lines * line_height_cm
calculate_text_height(text) ==
    (Len(text) \div chars_per_line + 1) * line_height_cm

\* module_total_height = max(4.0, text_height + 0.8)
module_total_height(text, minimum) ==
    Max(minimum, calculate_text_height(text) + dynamic_title_height)

\* the two shapes of one module at current_y
DynamicModuleShapes(module, x, current_y, content_height) ==
    << [shape |-> "rectangle", left |-> Cm(x), top |-> CmH(current_y),
        width |-> Cm(module_title_width), height |-> CmH(dynamic_title_height),
        text |-> module.title, paragraphs |-> <<>>],
       [shape |-> "textbox", left |-> Cm(x),
        top |-> CmH(current_y + dynamic_title_height),
        width |-> Cm(content_width), height |-> CmH(content_height),
        text |-> <<>>, paragraphs |-> apply_text_formatting(module.content)] >>

\* one column: current_y advances by the module's total height and the gap
RECURSIVE DynamicColumnShapes(_, _, _, _, _)
DynamicColumnShapes(modules, x, current_y, content_height, minimum) ==
    IF modules = <<>> THEN <<>>
    ELSE DynamicModuleShapes(modules[1], x, current_y, content_height)
         \o DynamicColumnShapes(Tail(modules), x,
                current_y + module_total_height(modules[1].content, minimum)
                          + dynamic_gap,
                content_height, minimum)

\* the shapes added to one slide, in the order they are added
DynamicSlideShapes(slide_data) ==
    << [shape |-> "textbox", left |-> Cm(0), top |-> Cm(0),
        width |-> Cm(title_bar_width), height |-> Cm(title_bar_height),
        text |-> slide_data.title, paragraphs |-> <<>>],
       [shape |-> "rectangle", left |-> Cm(0), top |-> Cm(desc_top),
        width |-> Cm(desc_width), height |-> Cm(desc_height),
        text |-> slide_data.description, paragraphs |-> <<>>] >>
    \o DynamicColumnShapes(left_modules(slide_data.modules), left_column_x,
                           dynamic_first_y, dynamic_left_content,
                           dynamic_left_minimum)
    \o DynamicColumnShapes(right_modules(slide_data.modules), right_column_x,
                           dynamic_first_y, dynamic_right_content,
                           dynamic_right_minimum)

-----------------------------------------------------------------------------
(* The inputs of the dynamic layout specification *)

MaxDynamicModules == 5

\* module texts of 1, 10 and 16 estimated lines
TextOfLength(n) == [j \in 1..n |-> "a"]
DynamicContents == {TextOfLength(1), TextOfLength(216), TextOfLength(360)}

DynamicSlides ==
    { [title |-> <<"a">>, description |-> <<"b">>,
       modules |-> [k \in DOMAIN cs |-> [title |-> TitleOf(k),
                                         content |-> cs[k]]]] :
      cs \in SeqsUpTo(DynamicContents, MaxDynamicModules) }

InitDynamic ==
    /\ pc = "dynamic_deck"
    /\ slides_data \in {<<>>} \cup {<<s>> : s \in DynamicSlides}
    /\ slide_idx = 0 /\ prs_slides = <<>>
    /\ IdleMerge /\ IdleParse /\ IdleFormat
    /\ IdlePdf /\ IdleRead /\ IdleService

\* prs = Presentation() with the 16:9 slide size
NewDynamicPresentation ==
    /\ pc = "dynamic_deck"
    /\ prs_slides' = <<>> /\ slide_idx' = 0
    /\ pc' = "dynamic_slides"
    /\ UNCHANGED <<slides_data, mergeVars, parseVars, formatVars, pdfVars,
                   readVars,
                   serviceVars>>

\* one iteration of `for slide_data in slides_data`
AddDynamicSlide ==
    /\ pc = "dynamic_slides"
    /\ slide_idx < Len(slides_data)
    /\ prs_slides' = Append(prs_slides,
                            DynamicSlideShapes(slides_data[slide_idx + 1]))
    /\ slide_idx' = slide_idx + 1
    /\ UNCHANGED <<pc, slides_data, mergeVars, parseVars, formatVars, pdfVars,
                   readVars,
                   serviceVars>>

\* prs.save(output_file)
SaveDynamicPresentation ==
    /\ pc = "dynamic_slides"
    /\ slide_idx = Len(slides_data)
    /\ pc' = "dynamic_saved"
    /\ UNCHANGED <<slides_data, slide_idx, prs_slides, mergeVars, parseVars,
                   formatVars, pdfVars, readVars,
                   serviceVars>>

NextDynamic ==
    NewDynamicPresentation \/ AddDynamicSlide \/ SaveDynamicPresentation

SpecDynamic == InitDynamic /\ [][NextDynamic]_vars

-----------------------------------------------------------------------------
(* app.py : api_summarize and the task thread it starts.  app.run(...,      *)
(* threaded=True) handles every request in a thread of its own and nothing  *)
(* in the handler takes a lock, so the handlers interleave between their    *)
(* accesses to the globals; a handler is cut at those accesses.  A task     *)
(* thread ends at any time, with a result or with an exception: both paths  *)
(* of run_task set is_running to False.                                     *)

\* a request in the handler of position p, not yet answered
Handler(body) == [body |-> body, pc |-> "received", reply |-> 0]

Reply(r, status) == [r EXCEPT !.pc = "replied", !.reply = status]

-----------------------------------------------------------------------------
(* The inputs of the summarize specification *)

MaxRequests == 3

\* a body with a paper title, with a blank title, and a body that is not a
\* JSON object (data.get raises)
Bodies == {"title", "blank", "none"}

InitSummarize ==
    /\ pc = "serving"
    /\ requests \in {[k \in DOMAIN bs |-> Handler(bs[k])] :
                        bs \in SeqsUpTo(Bodies, MaxRequests) \ {<<>>}}
    /\ is_running = FALSE
    /\ current_task_thread = 0
    /\ task_threads = <<>>
    /\ IdleMerge /\ IdleParse /\ slides_data = <<>> /\ IdleFormat /\ IdleLayout
    /\ IdlePdf /\ IdleRead /\ IdleSlots /\ IdleDiscuss

\* data = request.get_json() ... `if current_task_status['is_running']`: a
\* body that is no object raises, and `except Exception` clears is_running
\* and answers 500; a blank title is answered 400, a running task 409
CheckRunning(k) ==
    /\ pc = "serving"
    /\ requests[k].pc = "received"
    /\ IF requests[k].body = "none"
       THEN /\ is_running' = FALSE
            /\ requests' = [requests EXCEPT ![k] = Reply(@, 500)]
       ELSE /\ UNCHANGED is_running
            /\ requests' = [requests EXCEPT ![k] =
                               IF @.body = "blank" THEN Reply(@, 400)
                               ELSE IF is_running THEN Reply(@, 409)
                               ELSE [@ EXCEPT !.pc = "not_running"]]
    /\ UNCHANGED <<pc, current_task_thread, task_threads>>
    /\ UNCHANGED <<slides_data, mergeVars, parseVars, formatVars, layoutVars,
                   pdfVars, readVars, slotVars, discussVars>>

\* `if current_task_thread and current_task_thread.is_alive()`: 409
CheckThread(k) ==
    /\ pc = "serving"
    /\ requests[k].pc = "not_running"
    /\ requests' = [requests EXCEPT ![k] =
                       IF /\ current_task_thread # 0
                          /\ task_threads[current_task_thread] = "running"
                       THEN Reply(@, 409)
                       ELSE [@ EXCEPT !.pc = "no_thread"]]
    /\ UNCHANGED <<pc, is_running, current_task_thread, task_threads>>
    /\ UNCHANGED <<slides_data, mergeVars, parseVars, formatVars, layoutVars,
                   pdfVars, readVars, slotVars, discussVars>>

\* current_task_status = {'is_running': True, ...}
ResetStatus(k) ==
    /\ pc = "serving"
    /\ requests[k].pc = "no_thread"
    /\ is_running' = TRUE
    /\ requests' = [requests EXCEPT ![k].pc = "status_reset"]
    /\ UNCHANGED <<pc, current_task_thread, task_threads>>
    /\ UNCHANGED <<slides_data, mergeVars, parseVars, formatVars, layoutVars,
                   pdfVars, readVars, slotVars, discussVars>>

\* current_task_thread = threading.Thread(target=run_task, ...); start()
StartTask(k) ==
    /\ pc = "serving"
    /\ requests[k].pc = "status_reset"
    /\ task_threads' = Append(task_threads, "running")
    /\ current_task_thread' = Len(task_threads) + 1
    /\ requests' = [requests EXCEPT ![k] = Reply(@, 200)]
    /\ UNCHANGED <<pc, is_running>>
    /\ UNCHANGED <<slides_data, mergeVars, parseVars, formatVars, layoutVars,
                   pdfVars, readVars, slotVars, discussVars>>

\* run_task returns: current_task_status['is_running'] = False
FinishTask(t) ==
    /\ pc = "serving"
    /\ task_threads[t] = "running"
    /\ task_threads' = [task_threads EXCEPT ![t] = "finished"]
    /\ is_running' = FALSE
    /\ UNCHANGED <<pc, requests, current_task_thread>>
    /\ UNCHANGED <<slides_data, mergeVars, parseVars, formatVars, layoutVars,
                   pdfVars, readVars, slotVars, discussVars>>

NextSummarize ==
    \/ \E k \in DOMAIN requests :
          CheckRunning(k) \/ CheckThread(k) \/ ResetStatus(k) \/ StartTask(k)
    \/ \E t \in DOMAIN task_threads : FinishTask(t)

SpecSummarize == InitSummarize /\ [][NextSummarize]_vars

-----------------------------------------------------------------------------
(* monitoring.py : ConcurrencyManager.  acquire_session_slot does not       *)
(* suspend when the semaphore has a free slot and neither method awaits     *)
(* after that, so each call is one step; a call that finds no free slot     *)
(* waits until a release makes one.                                         *)

\* current_config of the default environment ("development")
MAX_CONCURRENT_SESSIONS == 50

-----------------------------------------------------------------------------
(* The inputs of the slot specification *)

MaxSessionIds == 2

SessionIds == 1..MaxSessionIds

\* ConcurrencyManager.__init__
InitSlots ==
    /\ pc = "slots"
    /\ semaphore_value = MAX_CONCURRENT_SESSIONS
    /\ active_sessions = {}
    /\ session_locks = {}
    /\ slot_result = [s \in SessionIds |-> "none"]
    /\ IdleMerge /\ IdleParse /\ slides_data = <<>> /\ IdleFormat /\ IdleLayout
    /\ IdlePdf /\ IdleRead /\ IdleSummarize /\ IdleDiscuss

\* await self._semaphore.acquire(); then the id is added and True returned
\* unless it is active already, in which case False is returned and the
\* slot taken from the semaphore is kept
acquire_session_slot(session_id) ==
    /\ pc = "slots"
    /\ semaphore_value > 0
    /\ semaphore_value' = semaphore_value - 1
    /\ IF session_id \notin active_sessions
       THEN /\ active_sessions' = active_sessions \cup {session_id}
            /\ session_locks' = session_locks \cup {session_id}
            /\ slot_result' = [slot_result EXCEPT ![session_id] = TRUE]
       ELSE /\ UNCHANGED <<active_sessions, session_locks>>
            /\ slot_result' = [slot_result EXCEPT ![session_id] = FALSE]
    /\ UNCHANGED pc
    /\ UNCHANGED <<slides_data, mergeVars, parseVars, formatVars, layoutVars,
                   pdfVars, readVars, summarizeVars, discussVars>>

\* an active id is removed with its lock and the semaphore released; an id
\* that is not active changes nothing
release_session_slot(session_id) ==
    /\ pc = "slots"
    /\ IF session_id \in active_sessions
       THEN /\ active_sessions' = active_sessions \ {session_id}
            /\ session_locks' = session_locks \ {session_id}
            /\ semaphore_value' = semaphore_value + 1
       ELSE UNCHANGED <<active_sessions, session_locks, semaphore_value>>
    /\ UNCHANGED <<pc, slot_result>>
    /\ UNCHANGED <<slides_data, mergeVars, parseVars, formatVars, layoutVars,
                   pdfVars, readVars, summarizeVars, discussVars>>

NextSlots ==
    \E session_id \in SessionIds :
        acquire_session_slot(session_id) \/ release_session_slot(session_id)

SpecSlots == InitSlots /\ [][NextSlots]_vars

-----------------------------------------------------------------------------
(* main_optimized.py : the discussion server.  The handlers and tasks run   *)
(* on one asyncio loop and are cut at their awaits.  A task made runnable   *)
(* by create_task or by the end of gather is ahead of every request and     *)
(* timer that arrives later in the loop's ready queue, so it takes its      *)
(* step first.  A session is a record of its status, the agent keys that    *)
(* have an entry in "results" (completed_agents lists the same keys) and    *)
(* the hours since last_accessed.                                           *)

\* ThreadSafeAgentManager._agent_factories
agent_factories ==
    {"scientist", "financier", "engineer", "leader", "entrepreneur", "artist"}

\* cleanup_expired_sessions(max_age_hours = 24)
max_age_hours == 24

\* the clock advances in steps of this many hours; longer idle times are
\* not told apart once they exceed max_age_hours
ElapseHours == 13

IdleCap == 2 * ElapseHours

Without(f, k) == [s \in DOMAIN f \ {k} |-> f[s]]

\* ThreadSafeDiscussionStore.create_session
create_session(store, session_id) ==
    [s \in DOMAIN store \cup {session_id} |->
        IF s = session_id
        THEN [status |-> "processing", results |-> {}, idle_hours |-> 0]
        ELSE store[s]]

\* ThreadSafeDiscussionStore.get_session, for its effect on the store
get_session(store, session_id) ==
    IF session_id \in DOMAIN store
    THEN [store EXCEPT ![session_id].idle_hours = 0]
    ELSE store

\* ThreadSafeDiscussionStore.update_session with a new status
update_status(store, session_id, status) ==
    IF session_id \in DOMAIN store
    THEN [store EXCEPT ![session_id].status = status,
                       ![session_id].idle_hours = 0]
    ELSE store

\* ThreadSafeDiscussionStore.delete_session
delete_session(store, session_id) ==
    IF session_id \in DOMAIN store THEN Without(store, session_id) ELSE store

\* ThreadSafeDiscussionStore.cleanup_expired_sessions
cleanup_expired_sessions(store) ==
    LET expired_sessions ==
            {s \in DOMAIN store : store[s].idle_hours > max_age_hours}
    IN  [s \in DOMAIN store \ expired_sessions |-> store[s]]

\* ThreadSafeAgentManager.get_agents_for_session, for its effect on the keys
get_agents_for_session(agents, session_id) == agents \cup {session_id}

\* ThreadSafeAgentManager.cleanup_session_agents
cleanup_session_agents(agents, session_id) == agents \ {session_id}

\* a process_discussion task that the loop will run before anything else
Runnable(task) ==
    \/ task.pc = "scheduled"
    \/ task.pc = "gathering" /\ task.thinking = {}

NoneRunnable == \A s \in DOMAIN discussion_tasks : ~Runnable(discussion_tasks[s])

-----------------------------------------------------------------------------
(* The inputs of the discussion specification *)

MaxDiscussions == 2

InitDiscuss ==
    /\ pc = "discussing"
    /\ discussions = <<>>
    /\ session_agents = {}
    /\ discussion_tasks = <<>>
    /\ session_count = 0
    /\ IdleMerge /\ IdleParse /\ slides_data = <<>> /\ IdleFormat /\ IdleLayout
    /\ IdlePdf /\ IdleRead /\ IdleSummarize /\ IdleSlots

\* POST /api/discuss: a fresh uuid4, create_session, create_task
start_discussion ==
    /\ pc = "discussing"
    /\ NoneRunnable
    /\ session_count < MaxDiscussions
    /\ session_count' = session_count + 1
    /\ discussions' = create_session(discussions, session_count + 1)
    /\ discussion_tasks' =
           Append(discussion_tasks, [pc |-> "scheduled", thinking |-> {}])
    /\ UNCHANGED <<pc, session_agents>>
    /\ UNCHANGED <<slides_data, mergeVars, parseVars, formatVars, layoutVars,
                   pdfVars, readVars, summarizeVars, slotVars>>

\* process_discussion up to `await asyncio.gather(*tasks)`: the agents of
\* the session are made and every run_agent_thinking task reaches
\* `await agent.think(topic)`
process_discussion_start(session_id) ==
    /\ pc = "discussing"
    /\ discussion_tasks[session_id].pc = "scheduled"
    /\ session_agents' = get_agents_for_session(session_agents, session_id)
    /\ discussion_tasks' = [discussion_tasks EXCEPT ![session_id] =
                               [pc |-> "gathering", thinking |-> agent_factories]]
    /\ UNCHANGED <<pc, discussions, session_count>>
    /\ UNCHANGED <<slides_data, mergeVars, parseVars, formatVars, layoutVars,
                   pdfVars, readVars, summarizeVars, slotVars>>

\* run_agent_thinking after agent.think returned or raised: either way an
\* entry for the agent is stored if the session still exists
run_agent_thinking(session_id, agent_key) ==
    /\ pc = "discussing"
    /\ NoneRunnable
    /\ agent_key \in discussion_tasks[session_id].thinking
    /\ discussion_tasks' =
           [discussion_tasks EXCEPT ![session_id].thinking = @ \ {agent_key}]
    /\ discussions' =
           IF session_id \in DOMAIN discussions
           THEN [discussions EXCEPT ![session_id].results = @ \cup {agent_key},
                                    ![session_id].idle_hours = 0]
           ELSE discussions
    /\ UNCHANGED <<pc, session_agents, session_count>>
    /\ UNCHANGED <<slides_data, mergeVars, parseVars, formatVars, layoutVars,
                   pdfVars, readVars, summarizeVars, slotVars>>

\* process_discussion after gather: update_session(status = "completed")
process_discussion_finish(session_id) ==
    /\ pc = "discussing"
    /\ discussion_tasks[session_id].pc = "gathering"
    /\ discussion_tasks[session_id].thinking = {}
    /\ discussions' = update_status(discussions, session_id, "completed")
    /\ discussion_tasks' = [discussion_tasks EXCEPT ![session_id].pc = "done"]
    /\ UNCHANGED <<pc, session_agents, session_count>>
    /\ UNCHANGED <<slides_data, mergeVars, parseVars, formatVars, layoutVars,
                   pdfVars, readVars, summarizeVars, slotVars>>

\* GET /api/discuss/{session_id}/status: the store is changed by get_session
\* alone; an unknown id is answered 404
get_discussion_status(session_id) ==
    /\ pc = "discussing"
    /\ NoneRunnable
    /\ discussions' = get_session(discussions, session_id)
    /\ UNCHANGED <<pc, session_agents, discussion_tasks, session_count>>
    /\ UNCHANGED <<slides_data, mergeVars, parseVars, formatVars, layoutVars,
                   pdfVars, readVars, summarizeVars, slotVars>>

\* DELETE /api/discuss/{session_id}: 404 for an unknown id, else the
\* session and its agents are removed
delete_discussion(session_id) ==
    /\ pc = "discussing"
    /\ NoneRunnable
    /\ IF session_id \in DOMAIN discussions
       THEN /\ discussions' =
                   delete_session(get_session(discussions, session_id), session_id)
            /\ session_agents' = cleanup_session_agents(session_agents, session_id)
       ELSE UNCHANGED <<discussions, session_agents>>
    /\ UNCHANGED <<pc, discussion_tasks, session_count>>
    /\ UNCHANGED <<slides_data, mergeVars, parseVars, formatVars, layoutVars,
                   pdfVars, readVars, summarizeVars, slotVars>>

\* periodic_cleanup after its sleep: cleanup_expired_sessions and no more
periodic_cleanup ==
    /\ pc = "discussing"
    /\ NoneRunnable
    /\ discussions' = cleanup_expired_sessions(discussions)
    /\ UNCHANGED <<pc, session_agents, discussion_tasks, session_count>>
    /\ UNCHANGED <<slides_data, mergeVars, parseVars, formatVars, layoutVars,
                   pdfVars, readVars, summarizeVars, slotVars>>

\* ElapseHours pass without any step of the server
Elapse ==
    /\ pc = "discussing"
    /\ NoneRunnable
    /\ \E s \in DOMAIN discussions : discussions[s].idle_hours < IdleCap
    /\ discussions' =
           [s \in DOMAIN discussions |->
               [discussions[s] EXCEPT
                   !.idle_hours = Min(@ + ElapseHours, IdleCap)]]
    /\ UNCHANGED <<pc, session_agents, discussion_tasks, session_count>>
    /\ UNCHANGED <<slides_data, mergeVars, parseVars, formatVars, layoutVars,
                   pdfVars, readVars, summarizeVars, slotVars>>

NextDiscuss ==
    \/ start_discussion
    \/ \E session_id \in 1..session_count :
          \/ process_discussion_start(session_id)
          \/ \E agent_key \in agent_factories :
                run_agent_thinking(session_id, agent_key)
          \/ process_discussion_finish(session_id)
          \/ get_discussion_status(session_id)
          \/ delete_discussion(session_id)
    \/ periodic_cleanup
    \/ Elapse

SpecDiscuss == InitDiscuss /\ [][NextDiscuss]_vars

-----------------------------------------------------------------------------
(* Claims about merge_overlapping_regions *)

Returned == pc \in {"merged", "remerged"}

\* C1: after merge_overlapping_regions returns, no two distinct regions of
\* its output have an overlap ratio above overlap_threshold, except a pair
\* that lies on the same row and is horizontally close (the same-row chain).
C1_NoOverlapAboveThreshold ==
    Returned =>
        \A a, b \in 1..Len(merged) :
            (a # b /\ RatGT(calculate_overlap(merged[a], merged[b]),
                            overlap_threshold))
                => /\ is_same_row(merged[a], merged[b])
                   /\ is_horizontally_close(merged[a], merged[b])

\* C2: merge_overlapping_regions is idempotent: applied to its own output it
\* returns that output unchanged (same regions, same order).
C2_MergeIdempotent ==
    pc = "remerged" => remerged = merged

\* The merge condition as the claim C3 states it.
MergeCondition(r, s, threshold) ==
    LET ov == calculate_overlap(r, s)
        y_overlap == Max(0, Min(r[4], s[4]) - Max(r[2], s[2]))
        min_height == Min(r[4] - r[2], s[4] - s[2])
        gap == Max(0, Max(r[1], s[1]) - Min(r[3], s[3]))
    IN  \/ ov[1] * threshold[2] > threshold[1] * ov[2]
        \/ (2 * y_overlap > min_height /\ gap <= 100)

Range(f) == {f[k] : k \in DOMAIN f}

\* the bounding box of the regions of rs at the (non-empty) index set S
BoxOf(rs, S) ==
    <<CHOOSE v \in {rs[k][1] : k \in S} : \A k \in S : v <= rs[k][1],
      CHOOSE v \in {rs[k][2] : k \in S} : \A k \in S : v <= rs[k][2],
      CHOOSE v \in {rs[k][3] : k \in S} : \A k \in S : v >= rs[k][3],
      CHOOSE v \in {rs[k][4] : k \in S} : \A k \in S : v >= rs[k][4]>>

\* Two regions are merged exactly when the condition holds (this covers the
\* pair whose ratio equals the threshold), and Example2 gives 3 regions at
\* threshold 0.3 and 2 regions at threshold 0.1.
C3_PairAndExample ==
    /\ Len(regions) = 2 =>
          IF MergeCondition(regions[1], regions[2], overlap_threshold)
          THEN merged = <<BoundingBox(regions[1], regions[2])>>
          ELSE merged = regions
    /\ regions = Example2 =>
          Len(merged) = (IF overlap_threshold = <<3, 10>> THEN 3 ELSE 2)

\* C3 as stated: ... and a region meeting neither condition against any
\* other region is returned unchanged.
C3_Original ==
    Returned =>
        /\ C3_PairAndExample
        /\ \A k \in 1..Len(regions) :
              (\A j \in 1..Len(regions) \ {k} :
                    ~MergeCondition(regions[k], regions[j], overlap_threshold))
                 => regions[k] \in Range(merged)

\* C3 as amended: ... and a region meeting neither condition against any
\* other region nor against the bounding box of any several other regions
\* is returned unchanged.
C3_MergeCondition ==
    Returned =>
        /\ C3_PairAndExample
        /\ \A k \in 1..Len(regions) :
              (\A S \in SUBSET (1..Len(regions) \ {k}) :
                    S # {} => ~MergeCondition(regions[k], BoxOf(regions, S),
                                              overlap_threshold))
                 => regions[k] \in Range(merged)

\* A pair whose ratio is exactly the threshold and that is not on the same
\* row came back unmerged.
C3_Witness ==
    /\ pc = "merged"
    /\ Len(regions) = 2
    /\ LET ov == calculate_overlap(regions[1], regions[2])
       IN  /\ ov[1] * overlap_threshold[2] = overlap_threshold[1] * ov[2]
           /\ ~is_same_row(regions[1], regions[2])
    /\ merged = regions

-----------------------------------------------------------------------------
(* Claims about parse_markdown *)

IsH1Line(l) == startswith(strip(l), H1)
IsH2Line(l) == startswith(strip(l), H2)
IsHeadingLine(l) == IsH1Line(l) \/ IsH2Line(l)

\* the lines that follow line h up to, not including, the next heading of
\* either level (1-based positions in ls)
RECURSIVE BodyOf(_, _)
BodyOf(ls, h) ==
    IF h + 1 > Len(ls) \/ IsHeadingLine(ls[h + 1]) THEN <<>>
    ELSE <<ls[h + 1]>> \o BodyOf(ls, h + 1)

IsNonBlank(l) == strip(l) # <<>>
Trimmed(ls) == [k \in DOMAIN ls |-> strip(ls[k])]

\* positions of the '# ' heading lines, in source order
RECURSIVE H1Positions(_, _)
H1Positions(ls, k) ==
    IF k > Len(ls) THEN <<>>
    ELSE (IF IsH1Line(ls[k]) THEN <<k>> ELSE <<>>) \o H1Positions(ls, k + 1)

\* positions of the '## ' heading lines after the first '# ' heading
RECURSIVE H2Positions(_, _, _)
H2Positions(ls, k, open) ==
    IF k > Len(ls) THEN <<>>
    ELSE (IF open /\ IsH2Line(ls[k]) THEN <<k>> ELSE <<>>)
         \o H2Positions(ls, k + 1, open \/ IsH1Line(ls[k]))

RECURSIVE AllModules(_)
AllModules(slides) ==
    IF slides = <<>> THEN <<>>
    ELSE slides[1].modules \o AllModules(Tail(slides))

Parsed == pc \in {"parsed", "reparsed"}

\* C4: writing the parse result back in the two-level heading format and
\* parsing that text again yields the same sequence of slide records.
C4_RoundTrip ==
    pc = "reparsed" => reparsed = slides_data

\* a slide with a description and a module with content went round
C4_Witness ==
    /\ pc = "reparsed"
    /\ reparsed = slides_data
    /\ \E k \in DOMAIN slides_data :
          /\ slides_data[k].description # <<>>
          /\ slides_data[k].modules # <<>>
          /\ slides_data[k].modules[1].content # <<>>

\* C7: exactly one slide per line that, trimmed, begins with '# ', in source
\* order, each titled with the text after the marker.
C7_OneSlidePerHeading ==
    Parsed =>
        LET hs == H1Positions(lines, 1)
        IN  [k \in DOMAIN slides_data |-> slides_data[k].title]
              = [k \in DOMAIN hs |-> strip(SliceFrom(strip(lines[hs[k]]), 2))]

\* C8: the description of a slide is the non-blank lines between its '# '
\* heading and the next heading of either level, joined by newline, and no
\* heading line is part of a description.
C8_DescriptionStopsAtHeading ==
    Parsed =>
        LET hs == H1Positions(lines, 1)
        IN  /\ [k \in DOMAIN slides_data |-> slides_data[k].description]
                 = [k \in DOMAIN hs |->
                      join(Trimmed(SelectSeq(BodyOf(lines, hs[k]), IsNonBlank)))]
            /\ \A k \in DOMAIN slides_data :
                  \A l \in Range(split(slides_data[k].description)) :
                      ~IsHeadingLine(l)

\* C9: the content of a module is every line between its '## ' heading and
\* the next heading of either level, joined by newline, a blank line (empty
\* after trimming) being kept as an empty segment.
C9_ContentKeepsBlankLines ==
    Parsed =>
        LET ms == H2Positions(lines, 1, FALSE)
            mods == AllModules(slides_data)
        IN  [k \in DOMAIN mods |-> mods[k].content]
              = [k \in DOMAIN ms |-> join(Trimmed(BodyOf(lines, ms[k])))]

-----------------------------------------------------------------------------
(* Claims about apply_text_formatting and the slide layout *)

RECURSIVE Concat(_)
Concat(seqs) == IF seqs = <<>> THEN <<>> ELSE seqs[1] \o Concat(Tail(seqs))

IsBoldRun(run) == run.bold
TextsOf(runs) == [k \in DOMAIN runs |-> runs[k].text]

\* the text between the markers of a match '**...**'
Bracketed(match) == SubSeq(match, 3, Len(match) - 2)

\* C5: for a single content line with N well-formed **bold** markers (the
\* N matches of the pattern in the trimmed line) exactly N runs are bold,
\* their texts are the bracketed texts, and the texts of all runs, in order,
\* concatenate to the line with the marker pairs removed.
C5_BoldRoundTrip ==
    (pc = "formatted" /\ NL \notin Range(text_content)) =>
        LET parts == re_split(strip(text_content))
            N == Len(parts) \div 2
            runs == paragraphs[1]
        IN  /\ TextsOf(SelectSeq(runs, IsBoldRun))
                 = [k \in 1..N |-> Bracketed(parts[2 * k])]
            /\ Concat(TextsOf(runs))
                 = Concat([k \in DOMAIN parts |->
                             IF k % 2 = 0 THEN Bracketed(parts[k])
                             ELSE parts[k]])

Laid == pc \in {"slides", "saved"}

\* C6: for a slide with n modules, a title rectangle and a content rectangle
\* are emitted for exactly min(n, 5) modules, modules 1 to 3 in the left
\* column and modules 4 to 5 in the right column, in source order, after the
\* title bar and the description bar, and nothing else.
C6_ModuleTruncation ==
    Laid =>
        \A k \in DOMAIN prs_slides :
            LET modules == slides_data[k].modules
                shapes == prs_slides[k]
                shown == Min(Len(modules), 5)
            IN  /\ Len(shapes) = 2 + 2 * shown
                /\ shapes[1].text = slides_data[k].title
                /\ shapes[2].text = slides_data[k].description
                /\ \A m \in 1..shown :
                      LET x == IF m <= 3 THEN Cm(10) ELSE Cm(160)
                      IN  /\ shapes[2 * m + 1].shape = "rectangle"
                          /\ shapes[2 * m + 1].text = modules[m].title
                          /\ shapes[2 * m + 1].left = x
                          /\ shapes[2 * m + 2].shape = "textbox"
                          /\ shapes[2 * m + 2].paragraphs
                               = apply_text_formatting(modules[m].content)
                          /\ shapes[2 * m + 2].left = x

\* a slide of 7 modules got 5 module pairs and a slide without modules only
\* the title bar and the description bar
C6_Witness ==
    /\ pc = "saved"
    /\ \E k \in DOMAIN prs_slides :
          Len(slides_data[k].modules) = 7 /\ Len(prs_slides[k]) = 12
    /\ \E k \in DOMAIN prs_slides :
          Len(slides_data[k].modules) = 0 /\ Len(prs_slides[k]) = 2

-----------------------------------------------------------------------------
(* Claims about cluster_drawings *)

\* the drawings linked to a drawing of S by a chain of near neighbours
RECURSIVE Reach(_, _)
Reach(ds, S) ==
    LET T == S \cup {k \in DOMAIN ds : \E m \in S : IsNear(ds[m], ds[k])}
    IN  IF T = S THEN S ELSE Reach(ds, T)

GroupOf(k) ==
    CHOOSE g \in DOMAIN drawing_groups : \E m \in DOMAIN drawing_groups[g] :
        drawing_groups[g][m] = k

\* C11: cluster_drawings produces single-link clusters: two drawings are in
\* the same group if and only if a chain of drawings links them in which
\* each consecutive pair has centres closer than the distance threshold.
C11_SingleLink ==
    pc = "clustered" =>
        \A a, b \in DOMAIN drawings :
            (GroupOf(a) = GroupOf(b)) <=> (b \in Reach(drawings, {a}))

-----------------------------------------------------------------------------
(* Claims about detect_image_regions *)

\* the detectors of a page that fail
FailedDetectors(p) ==
    (IF p.get_images_raises THEN {"embedded"} ELSE {})
    \cup (IF p.get_drawings_raises THEN {"drawing"} ELSE {})
    \cup (IF p.visual_raises \/ p.pixmap_raises THEN {"visual"} ELSE {})

\* what the detectors that did not fail contribute, a failed one nothing
Contributions(p) ==
    (IF p.get_images_raises THEN <<>> ELSE EmbeddedImages(p.images))
    \o (IF p.get_drawings_raises \/ p.drawings = <<>> THEN <<>>
        ELSE DrawingRegions(p.drawings, cluster_drawings(p.drawings)))
    \o (IF p.visual_raises \/ p.pixmap_raises THEN <<>>
        ELSE ContourRegions(p.contours))

\* C12: a failure of any one of the three detectors is contained: the
\* failing detector contributes no regions, the other two still run, and the
\* merged regions of the page are returned, no exception reaching the caller.
C12_DetectorFailureContained ==
    (pc = "detected" /\ Cardinality(FailedDetectors(page[1])) = 1) =>
        /\ ~detected[1].raised
        /\ detected[1].regions
             = merge_overlapping_regions(Contributions(page[1]),
                                         default_overlap_threshold)

-----------------------------------------------------------------------------
(* Claims about extract_image_regions_from_pdf *)

ExtractEnded == pc \in {"closed", "raised"}

\* C13: an error raised while processing one page is caught at the page
\* boundary: the remaining pages of the PDF are still processed, so that
\* when the call ends every page of an opened PDF has been taken up.
C13_PageErrorContained ==
    (ExtractEnded /\ ~pdf_document.open_raises) =>
        Len(raw_regions) = Len(pdf_document.pages)

\* C17: with same-row merging enabled the regions handed to the cropping
\* stage are pairwise non-overlapping: no two regions of a page have an
\* intersection of positive area.
C17_HandedRegionsDisjoint ==
    (pc \in {"pages", "closed", "raised"} /\ merge_same_row) =>
        \A p \in DOMAIN image_regions :
            \A a, b \in DOMAIN image_regions[p] :
                a # b => calculate_overlap(image_regions[p][a],
                                           image_regions[p][b])[1] = 0

\* the boxes of the rows of two or more regions the same-row merge built
MergedRowBoxes(raw) ==
    {merge_regions_in_row(RowsOf(raw)[k]) :
        k \in {n \in DOMAIN RowsOf(raw) : Len(RowsOf(raw)[n]) >= 2}}

\* C18: with same-row merging enabled a saved file is named 'merged_row' if
\* and only if its region resulted from merging two or more regions in the
\* same-row merge; a region no merge changed is named 'region'.
C18_MergedRowNaming ==
    (pc \in {"pages", "closed", "raised"} /\ merge_same_row) =>
        \A f \in DOMAIN saved_files :
            (saved_files[f].kind = "merged_row")
                <=> (saved_files[f].region
                        \in MergedRowBoxes(raw_regions[saved_files[f].page]))

-----------------------------------------------------------------------------
(* Claims about batch_extract_image_regions *)

NamesOf(files) == [k \in DOMAIN files |-> files[k].name]

\* the PDF names of a listing, in listing order
RECURSIVE PdfNames(_)
PdfNames(listing) ==
    IF listing = <<>> THEN <<>>
    ELSE LET n == Head(listing).name
             ext == SubSeq(n, Len(n) - 3, Len(n))
         IN  (IF Len(n) >= 4 /\ ext \in {DotPdf, <<".", "P", "D", "F">>}
              THEN <<n>> ELSE <<>>) \o PdfNames(Tail(listing))

\* C14: every PDF found in the folder is attempted exactly once, in listing
\* order: an exception while processing one PDF is caught and reported and
\* the loop goes on with the next PDF, so it always reaches the end of the
\* list.
C14_EveryPdfAttempted ==
    /\ [](pc = "files" =>
            /\ file_idx <= Len(pdf_files)
            /\ attempted = SubSeq(NamesOf(pdf_files), 1, file_idx)
            /\ ENABLED <<BatchFile \/ BatchDone>>_vars)
    /\ [][(pc = "files" /\ pc' = "files") => file_idx' = file_idx + 1]_vars
    /\ []((pc = "returned" /\ pdf_folder.exists) =>
            /\ attempted = PdfNames(pdf_folder.listing)
            /\ \A k \in DOMAIN pdf_files :
                  extract_image_regions_from_pdf(pdf_files[k].pdf,
                                                 merge_same_row).raised
                      <=> \E m \in DOMAIN reported :
                              reported[m] = pdf_files[k].name)
    /\ [](pc # "raised")

\* the batch returned after a PDF that failed to open and a PDF with a
\* failing page were each followed by a further attempt
C14_Witness ==
    /\ pc = "returned"
    /\ Len(attempted) = 3
    /\ Len(reported) = 2
    /\ reported[1] = attempted[1]
    /\ reported[2] = attempted[2]

-----------------------------------------------------------------------------
(* Claims about safe_read_file *)

Succeeds(f, a) == OpenAndRead(f, a.encoding, a.method = "lossy").ok

\* C15: safe_read_file never surfaces a decoding error: for a file that can
\* be opened, whatever its bytes and whatever the sniffer reports, it
\* returns text; it raises, and then its descriptive ValueError only, when
\* every attempt to read the file fails, as for an absent file.
C15_NoDecodingErrorSurfaces ==
    /\ pc \in {"path", "encodings"} =>
          /\ Len(tried) <= Len(encodings) + 1
          /\ ENABLED <<NextRead>>_vars
    /\ (pc \in {"returned", "raised"} /\ file.exists) =>
          /\ pc = "returned"
          /\ read_result # <<>>
          /\ read_result[1].kind = "text"
    /\ pc = "raised" =>
          /\ read_result # <<>>
          /\ read_result[1].kind = "ValueError"
          /\ tried # <<>>
          /\ \A k \in DOMAIN tried : ~Succeeds(file, tried[k])

\* a file sniffed as ASCII at high confidence whose bytes are neither ASCII
\* nor UTF-8 was returned as text by a later decoder
C15_Witness ==
    /\ pc = "returned"
    /\ file.detected_encoding = "ascii"
    /\ Len(tried) >= 3
    /\ tried[1].method = "sniffed"
    /\ read_result[1].kind = "text"

\* the order of decoders as C16 states it
ClaimedOrder == <<"utf-8", "gbk", "gb2312", "cp936", "latin-1", "cp1252">>

ClaimedAttempts(f) ==
    (IF f.exists /\ f.confidence > 70
     THEN <<Attempt("sniffed", f.detected_encoding)>> ELSE <<>>)
    \o [k \in DOMAIN ClaimedOrder |-> Attempt("list", ClaimedOrder[k])]
    \o <<Attempt("lossy", "utf-8")>>

\* C16: the decoders are tried in a fixed order: the sniffed encoding first,
\* and only at confidence above 0.7, then UTF-8, GBK, GB2312, CP936, Latin-1,
\* CP1252 and last lossy UTF-8; the result is that of the first decoder in
\* this order that succeeds. Bytes that are invalid UTF-8 but valid GBK,
\* sniffed at low confidence, are returned decoded as GBK.
C16_DecoderOrder ==
    /\ Len(tried) <= Len(ClaimedAttempts(file))
    /\ tried = SubSeq(ClaimedAttempts(file), 1, Len(tried))
    /\ pc = "returned" =>
          LET n == Len(tried)
          IN  /\ n >= 1
              /\ Succeeds(file, tried[n])
              /\ \A k \in 1..(n - 1) : ~Succeeds(file, tried[k])
              /\ read_result[1].text
                   = OpenAndRead(file, tried[n].encoding,
                                 tried[n].method = "lossy").text
    /\ pc = "raised" =>
          /\ tried = ClaimedAttempts(file)
          /\ \A k \in DOMAIN tried : ~Succeeds(file, tried[k])
    /\ (/\ pc = "returned"
        /\ file.confidence <= 70
        /\ ~utf8_decode(file.bytes, <<>>, FALSE).ok
        /\ dbcs_decode(file.bytes, <<>>, "gbk").ok) =>
          /\ read_result[1].encoding = "gbk"
          /\ read_result[1].text = dbcs_decode(file.bytes, <<>>, "gbk").text

\* the GBK bytes C4 E3, sniffed at confidence 0.5, came back as U+4F60
C16_Witness ==
    /\ pc = "returned"
    /\ file.bytes = <<196, 227>>
    /\ file.confidence = 50
    /\ tried = <<Attempt("list", "utf-8"), Attempt("list", "gbk")>>
    /\ read_result[1].text = <<20320>>

-----------------------------------------------------------------------------
(* Claims about the geometry of the fixed-height layout *)

\* kind, position and size of the shapes of a slide, in the order added
Geometry(shapes) ==
    [k \in DOMAIN shapes |->
        <<shapes[k].shape, shapes[k].left, shapes[k].top, shapes[k].width,
          shapes[k].height>>]

\* C19: the layout is deterministic and content-independent: the position
\* and size of every rectangle of a slide depend on the module's index
\* alone, so slides with the same number of modules get identical geometry
\* whatever their texts, and any two slides agree on the shapes both have.
C19_GeometryContentIndependent ==
    Laid =>
        \A a, b \in DOMAIN prs_slides :
            LET ga == Geometry(prs_slides[a])
                gb == Geometry(prs_slides[b])
            IN  /\ Len(slides_data[a].modules) = Len(slides_data[b].modules)
                      => ga = gb
                /\ \A k \in DOMAIN ga \cap DOMAIN gb : ga[k] = gb[k]

\* two slides that fill both columns and differ in description and module
\* texts were laid out with the same geometry
C19_Witness ==
    /\ pc = "saved"
    /\ Len(prs_slides) = 2
    /\ Len(slides_data[1].modules) = 5
    /\ Len(slides_data[2].modules) = 5
    /\ slides_data[1].description # slides_data[2].description
    /\ slides_data[1].modules[1].content # slides_data[2].modules[1].content
    /\ Geometry(prs_slides[1]) = Geometry(prs_slides[2])

\* C20: in each column the first module's title rectangle is at 3.0 cm and
\* the top of each following title rectangle is the top of the previous
\* one plus the title height, the content height and the gap of 0.3 cm,
\* in the left column as in the right column.
C20_ColumnAdvance ==
    Laid =>
        \A s \in DOMAIN prs_slides :
            LET shapes == prs_slides[s]
                shown == (Len(shapes) - 2) \div 2
            IN  \A m \in 1..shown :
                    IF m = 1 \/ m = 4
                    THEN shapes[2 * m + 1].top = Cm(30)
                    ELSE shapes[2 * m + 1].top
                           = shapes[2 * m - 1].top + shapes[2 * m - 1].height
                               + shapes[2 * m].height + Cm(3)

-----------------------------------------------------------------------------
(* Claims about the paragraphs of apply_text_formatting *)

\* one paragraph per line: the runs of a non-blank line, an empty paragraph
\* for a blank line that is not the last, nothing for a blank last line
RECURSIVE ParagraphPerLine(_, _)
ParagraphPerLine(ls, k) ==
    IF k > Len(ls) THEN <<>>
    ELSE (IF strip(ls[k]) # <<>> THEN <<RunsOf(re_split(strip(ls[k])))>>
          ELSE IF k < Len(ls) THEN <<<<>>>>
          ELSE <<>>)
         \o ParagraphPerLine(ls, k + 1)

\* C21: apply_text_formatting on content of k lines leaves the text frame
\* with exactly one paragraph per line, in source order: one paragraph with
\* the runs of each non-blank line, one empty paragraph for each blank line
\* that is not the last line and no paragraph for a trailing blank line,
\* also when the first line of the content is blank.
C21_ParagraphPerLine ==
    pc = "formatted" =>
        paragraphs = ParagraphPerLine(split(text_content), 1)

-----------------------------------------------------------------------------
(* Claims about detect_visual_regions *)

\* the contours whose width and height both exceed the size limit
ExceedsLimit(c) == c[3] > min_contour_size /\ c[4] > min_contour_size

\* C22: detect_visual_regions emits a region for a contour bounding box only
\* if both its width and its height exceed 100 pixels: a contour whose width
\* or height is exactly 100 pixels is filtered out.
C22_ContourFilter ==
    (pc = "detected" /\ ~detected[1].raised
        /\ ~page[1].pixmap_raises /\ ~page[1].visual_raises) =>
        Len(detected[1].visual_regions)
            = Len(SelectSeq(page[1].contours, ExceedsLimit))

-----------------------------------------------------------------------------
(* Claims about the lines before the first heading *)

IsH1(line) == startswith(strip(line), H1)

\* the 0-based index of the first '# ' heading, Len(ls) when there is none
FirstH1(ls) ==
    IF \E k \in DOMAIN ls : IsH1(ls[k])
    THEN (CHOOSE k \in DOMAIN ls :
              IsH1(ls[k]) /\ \A j \in 1..(k - 1) : ~IsH1(ls[j])) - 1
    ELSE Len(ls)

\* C23: everything before the first '# ' heading is discarded by
\* parse_markdown: the lines there, '## ' headings and the lines under them
\* included, produce no slide, no module and no description text, so the
\* result is that of the document without them (prepending lines that
\* contain no '# ' heading changes nothing).
C23_PreambleDiscarded ==
    /\ (pc = "scan" /\ i <= FirstH1(lines)) =>
            current_slide = <<>> /\ slides_data = <<>>
    /\ pc = "parsed" =>
            slides_data
                = parse_markdown(join(SliceFrom(lines, FirstH1(lines))))

\* a document whose first two lines, a '## ' heading and a text line, come
\* before its first '# ' heading was parsed to the one slide of that heading
C23_Witness ==
    /\ pc = "parsed"
    /\ Len(lines) = 4
    /\ startswith(strip(lines[1]), H2)
    /\ lines[2] = <<"a">>
    /\ FirstH1(lines) = 2
    /\ Len(slides_data) = 1
    /\ slides_data[1].description # <<>>

-----------------------------------------------------------------------------
(* Claims about the order and the coverage of merge_overlapping_regions *)

\* the rearrangements of a list
Permutations(rs) ==
    {[k \in DOMAIN rs |-> rs[p[k]]] :
        p \in {q \in [DOMAIN rs -> DOMAIN rs] :
                  \A a, b \in DOMAIN rs : a # b => q[a] # q[b]}}

\* C24: the result of merge_overlapping_regions does not depend on the order
\* of its input: for any list of regions and any permutation of it, the two
\* calls return the same set of regions.
C24_OrderIndependent ==
    pc = "merged" =>
        \A permuted \in Permutations(regions) :
            Range(merge_overlapping_regions(permuted, overlap_threshold))
                = Range(merged)

\* C25: merge_overlapping_regions loses no region: its output is the list of
\* union bounding boxes of the blocks of a partition of the input (each input
\* region is consumed by exactly one output region, which contains it), so
\* the output is never longer than the input and is non-empty whenever the
\* input is non-empty.
C25_OutputPartitionsInput ==
    pc = "merged" =>
        /\ Len(merged) <= Len(regions)
        /\ regions # <<>> => merged # <<>>
        /\ \E consumed_by \in [DOMAIN regions -> DOMAIN merged] :
              \A m \in DOMAIN merged :
                  LET block == {k \in DOMAIN regions : consumed_by[k] = m}
                  IN  block # {} /\ merged[m] = BoxOf(regions, block)

\* three regions came back as two: the box of a block of two regions, which
\* is neither of them, and a region on its own
C25_Witness ==
    /\ pc = "merged"
    /\ Len(regions) = 3
    /\ Len(merged) = 2
    /\ \E m \in DOMAIN merged : merged[m] \notin Range(regions)
    /\ \E m \in DOMAIN merged : merged[m] \in Range(regions)

-----------------------------------------------------------------------------
(* Claims about the canvas of the fixed-height layout *)

InsideCanvas(shape) ==
    /\ shape.left >= 0 /\ shape.top >= 0
    /\ shape.left + shape.width <= slide_width
    /\ shape.top + shape.height <= slide_height

\* C26: in the fixed-height layout every rectangle emitted for a slide (title
\* bar, description bar, module title and content rectangles of both columns)
\* lies fully inside the 13.33 in x 7.5 in canvas, for any number of modules.
C26_ShapesInsideCanvas ==
    Laid =>
        \A k \in DOMAIN prs_slides :
            \A n \in DOMAIN prs_slides[k] : InsideCanvas(prs_slides[k][n])

-----------------------------------------------------------------------------
(* Claims about the dynamic-height layout *)

DynamicLaid == pc \in {"dynamic_slides", "dynamic_saved"}

\* modules m and m + 1 of a slide are in the same column
SameColumn(m) == m \in {1, 2, 4}

\* C27: in the dynamic-height layout successive modules of a column never
\* overlap: for any module texts, the top of each module's title rectangle is
\* at or below the bottom of the previous module's content rectangle
\* (previous title top + 0.8 cm + content rectangle height).
C27_ModulesDoNotOverlap ==
    DynamicLaid =>
        \A k \in DOMAIN prs_slides :
            \A m \in 1..((Len(prs_slides[k]) - 2) \div 2 - 1) :
                SameColumn(m) =>
                    prs_slides[k][2 * m + 3].top
                        >= prs_slides[k][2 * m + 2].top
                             + prs_slides[k][2 * m + 2].height

-----------------------------------------------------------------------------
(* Claims about the paper-summary web service *)

RunningTasks == {t \in DOMAIN task_threads : task_threads[t] = "running"}

\* C28: in the paper-summary web service at most one summarize task thread
\* is running at any time: under any interleaving of concurrent POST
\* /api/summarize requests a second task is never started while an earlier
\* one is still running; the later request gets a 409 reply instead.
C28_OneTaskAtATime == Cardinality(RunningTasks) <= 1

-----------------------------------------------------------------------------
(* Claims about the ConcurrencyManager *)

\* C29: ConcurrencyManager keeps its slot accounting exact: after any
\* sequence of acquire_session_slot and release_session_slot calls, an
\* acquire of an id that is active already included, the number of free
\* semaphore slots plus the number of active sessions equals
\* MAX_CONCURRENT_SESSIONS.
C29_SlotAccounting ==
    pc = "slots" =>
        semaphore_value + Cardinality(active_sessions) = MAX_CONCURRENT_SESSIONS

-----------------------------------------------------------------------------
(* Claims about the discussion server *)

\* C30: in the optimized discussion server no agent instances outlive their
\* session: after any sequence of start, agent completion, delete and
\* expiry-cleanup operations, every session id that has agent instances in
\* ThreadSafeAgentManager also exists in ThreadSafeDiscussionStore.
C30_AgentsWithinSessions == session_agents \subseteq DOMAIN discussions

====
